---- MODULE Spec2Model ----
(***************************************************************************)
(* Water-quality predictor dashboards (AI4SD).                             *)
(*                                                                         *)
(* Three families of predict() exist in the repository:                    *)
(*   "capacity"  - src/ai4water_pwa_newdesign/src/App.jsx (configurable    *)
(*                 capacity-based model, seven inputs)                     *)
(*   "bennyfilt" - src/unnamed/part_005 and                                *)
(*                 src/Bennyfilt_Pages_Ready/app/public/sw.js (capacity    *)
(*                 model with fixed media, four inputs)                    *)
(*   "heuristic" - src/unnamed/part_001, part_003, part_004 (stress-based  *)
(*                 life, four inputs)                                      *)
(*                                                                         *)
(* JavaScript numbers are modelled by exact arithmetic:                    *)
(*   - fractions (penalties, removal fractions, risk) are integers in      *)
(*     units of 1/Scale, Scale being a common multiple of every divisor    *)
(*     the formulas use (1200, 1000/100, 5.0, 7.5, 8000, 12.0);            *)
(*   - concentrations are integers in units of 1/ConcDen mg/L, pH in       *)
(*     units of 1/PhDen, turbidity in NTU, flow in L/day, mass in g,       *)
(*     capacity in mg/g;                                                   *)
(*   - the capacity/life computation is done in normalised rationals       *)
(*     <<numerator, denominator>>.                                         *)
(* Rounding error of IEEE doubles is not modelled.                         *)
(*                                                                         *)
(* Seven state machines share the variables:                               *)
(*   Spec       - the dashboard under input events, on a coarse grid of    *)
(*                all fields                                               *)
(*   SpecAdvice - the same on a fine grid of pH and turbidity, for the     *)
(*                recommendation list                                      *)
(*   SpecEntry  - the dashboard driven by the texts typed in its fields    *)
(*   SpecSW     - the page's service worker: install, activate and the     *)
(*                fetch events of its clients, with the promise chains of  *)
(*                the handlers as separate steps                           *)
(*   SpecStatic - the static dashboard (part_005): init(), update() and    *)
(*                the inputs kept in localStorage                          *)
(*   SpecLifecycle - the worker's registration, install and activate alone *)
(*   SpecOrigin - the worker with one client on an origin it shares with   *)
(*                the other workers of the repository                      *)
(***************************************************************************)
EXTENDS Integers, Sequences, FiniteSets, TLC

\* trendArgs: the arguments the trend was last computed from (the dependency
\* list of its useMemo; the locals of update() in the static dashboard)
\* entry: the field and the text of the last input event whose keystrokes
\* the model follows
\* payload: the report the export button saves
VARIABLES variant, inputs, out, trendArgs, entry, payload

\* the static dashboard's document and the origin's local storage:
\*   storage           - the item stored under "bennyfilt_inputs"
\*   lastWrite         - how the last localStorage.setItem ended
\*   thrown            - whether an exception left the last handler uncaught
\*   listening         - whether init() has attached the input listeners
\*   registerRequested - whether init() has reached the registration of
\*                       the service worker
VARIABLES storage, lastWrite, thrown, listening, registerRequested

\* the page's service worker and the origin's cache storage:
\*   worker     - the worker script registered by the page ("none" before)
\*   swState    - the worker's position in its life cycle
\*   cacheNames - the names caches.keys() lists
\*   cache      - the entries of the worker's own cache, by request URL
\*   deleting   - the caches.delete(k) calls of the activate handler that
\*                have not resolved yet
\*   online     - whether fetch() reaches the server
\*   events     - per client, the fetch event in progress and its position
\*                in the handler's promise chain
\*   delivered  - the response the last settled fetch event gave its client
VARIABLES worker, swState, cacheNames, cache, deleting, online, events, delivered

renderVars == <<variant, inputs, out, trendArgs, entry, payload>>
documentVars == <<storage, lastWrite, thrown, listening, registerRequested>>
pageVars == <<variant, inputs, out, trendArgs, entry, payload,
              storage, lastWrite, thrown, listening, registerRequested>>
swVars == <<worker, swState, cacheNames, cache, deleting, online, events, delivered>>
vars == <<variant, inputs, out, trendArgs, entry, payload,
          storage, lastWrite, thrown, listening, registerRequested,
          worker, swState, cacheNames, cache, deleting, online, events, delivered>>

----------------------------------------------------------------------------
(* Units *)

Scale == 20 * 1200
ConcDen == 10 * 10
PhDen == 2 * 5

\* p percent as a fraction in units of 1/Scale (0.30 is Pct(30))
Pct(p) == (p * Scale) \div 100

----------------------------------------------------------------------------
(* Exact rational arithmetic on <<n, d>> with d > 0 *)

Abs(x) == IF x < 0 THEN -x ELSE x

RECURSIVE GCD(_, _)
GCD(a, b) == IF b = 0 THEN a ELSE GCD(b, a % b)

Norm(n, d) ==
  LET g == GCD(Abs(n), d) IN
  IF n = 0 THEN <<0, 1>> ELSE <<n \div g, d \div g>>

RInt(n) == <<n, 1>>

RMul(x, y) ==
  LET g1 == IF x[1] = 0 THEN 1 ELSE GCD(Abs(x[1]), y[2])
      g2 == IF y[1] = 0 THEN 1 ELSE GCD(Abs(y[1]), x[2])
  IN  Norm((x[1] \div g1) * (y[1] \div g2), (x[2] \div g2) * (y[2] \div g1))

RAdd(x, y) ==
  LET g == GCD(x[2], y[2])
  IN  Norm(x[1] * (y[2] \div g) + y[1] * (x[2] \div g), (x[2] \div g) * y[2])

\* x / y for y > 0
RDiv(x, y) == RMul(x, <<y[2], y[1]>>)

\* a/b < c/d for a, c >= 0 and b, d > 0, by comparing continued fractions
\* (no cross product, so 1e-9 can be compared without overflow)
RECURSIVE PosLess(_, _, _, _)
PosLess(a, b, c, d) ==
  LET qa == a \div b
      qc == c \div d
      ra == a % b
      rc == c % d
  IN  IF qa # qc THEN qa < qc
      ELSE IF rc = 0 THEN FALSE
      ELSE IF ra = 0 THEN TRUE
      ELSE PosLess(d, rc, b, ra)

RLess(x, y) ==
  IF x[1] < 0
    THEN IF y[1] >= 0 THEN TRUE ELSE PosLess(-y[1], y[2], -x[1], x[2])
    ELSE IF y[1] < 0 THEN FALSE ELSE PosLess(x[1], x[2], y[1], y[2])

RLeq(x, y) == ~RLess(y, x)

\* Math.max / Math.min on rationals
RMax(x, y) == IF RLess(x, y) THEN y ELSE x
RMin(x, y) == IF RLess(y, x) THEN y ELSE x

----------------------------------------------------------------------------
(* Shared helpers of every variant *)

Max(a, b) == IF a >= b THEN a ELSE b
Min(a, b) == IF a <= b THEN a ELSE b

\* const clamp = (x, a, b) => Math.min(b, Math.max(a, x));
clamp(x, a, b) == Min(b, Max(a, x))

RClamp(x, a, b) == RMin(b, RMax(a, x))

RNeg(x) == <<-x[1], x[2]>>
RSub(x, y) == RAdd(x, RNeg(y))

\* the 1e-9 floor of the denominator
Epsilon == <<1, 10^9>>

\* clamp(x / y, lo, hi) for y > 0 and integers lo <= hi; the quotient is only
\* formed when it lies inside (lo, hi), so x / 1e-9 is never materialised
ClampDiv(x, y, lo, hi) ==
  IF RLeq(RMul(RInt(hi), y), x) THEN RInt(hi)
  ELSE IF RLeq(x, RMul(RInt(lo), y)) THEN RInt(lo)
  ELSE RDiv(x, y)

\* a fraction held in units of 1/Scale, as a rational
FracToRat(f) == Norm(f, Scale)

\* a concentration held in units of 1/ConcDen mg/L, as a rational
ConcToRat(c) == Norm(c, ConcDen)

----------------------------------------------------------------------------
(* Formula pieces shared by the variants (the source repeats them verbatim) *)

\* mutant: the lower clamp of the turbidity penalty is lost
turbPenalty_NoLowerClamp(turbidity, cap) == Min(cap, (turbidity - 50) * (Scale \div 1200))

\* clamp((turbidity - 50) / 1200, 0, cap)
turbPenalty(turbidity, cap) == clamp((turbidity - 50) * (Scale \div 1200), 0, cap)

\* clamp(Math.abs(ph - 7.5) / 5.0, 0, 0.20)
phPenalty(ph) == clamp(Abs(ph - 75) * (Scale \div (5 * PhDen)), 0, Pct(20))

\* clamp(load / 10.0, 0, 0.12)
loadPenalty(load) == clamp(load * (Scale \div (10 * ConcDen)), 0, Pct(12))

\* mutant: the removed share is returned instead of the remaining one
outlet_RemovedShare(c, removal) == c * removal

\* pbOut = pb * (1 - pbRemoval), in units of 1/(ConcDen * Scale) mg/L
outlet(c, removal) == c * (Scale - removal)

\* mutant: the 0.35 floor of the fouling factor is lost
foulingFactor_NoFloor(turbidity) ==
  RClamp(RSub(RInt(1), RMul(<<3, 5>>, RClamp(Norm(turbidity, 1000), RInt(0), <<3, 2>>))),
         RInt(0), RInt(1))

\* clamp(1 - 0.60 * clamp(turbidity / 1000, 0, 1.5), 0.35, 1.0)
foulingFactor(turbidity) ==
  RClamp(RSub(RInt(1), RMul(<<3, 5>>, RClamp(Norm(turbidity, 1000), RInt(0), <<3, 2>>))),
         <<7, 20>>, RInt(1))

\* Math.max(0, mediaMass_g * capacity_mg_g * foulingFactor)
totalCapacity_mg(mediaMass_g, capacity_mg_g, ff) ==
  RMax(RInt(0), RMul(RMul(RInt(mediaMass_g), RInt(capacity_mg_g)), ff))

\* mutant: the life is capped at the heuristic model's 30 days
lifeDays_Cap30(capacity, removed) == ClampDiv(capacity, RMax(Epsilon, removed), 0, 30)

\* mutant: the capacity is multiplied by the daily removed mass, not divided
lifeDays_Multiplied(capacity, removed) ==
  RClamp(RMul(capacity, RMax(Epsilon, removed)), RInt(0), RInt(365))

\* clamp(totalCapacity_mg / Math.max(1e-9, removed), 0, 365)
lifeDays(capacity, removed) ==
  LET total_removed_mg_day == RMax(Epsilon, removed)
  IN  ClampDiv(capacity, total_removed_mg_day, 0, 365)

----------------------------------------------------------------------------
(* Compliance and the recommendation list ("actions") of predict.  A record *)
(* of the list is modelled by its kind and by the rule that pushed it (the  *)
(* rule stands for the record's title and detail texts).                    *)

Heuristic == {"heuristic", "heuristic_part_001", "heuristic_part_003"}

\* const limits = { pb: 0.01, as: 0.01 }, in 1/ConcDen mg/L
limits == [pb |-> 1, as |-> 1]

\* mutant: the outlet has to be strictly below the limit
pass_Strict(cOut, limit) == cOut < limit * Scale

\* pbPass = pbOut <= limits.pb (the outlet is in units of 1/(ConcDen * Scale) mg/L)
pass(cOut, limit) == cOut <= limit * Scale

\* mutant: the "bad" cut point is compared with > instead of >=
turbidityAdvice_StrictCut(v, turbidity) ==
  IF v = "heuristic_part_003"
  THEN IF turbidity > 10 THEN <<[rule |-> "turbidity", kind |-> "bad"]>>
       ELSE IF turbidity > 5 THEN <<[rule |-> "turbidity", kind |-> "warn"]>>
       ELSE <<[rule |-> "turbidity", kind |-> "ok"]>>
  ELSE IF turbidity > 900 THEN <<[rule |-> "turbidity", kind |-> "bad"]>>
       ELSE IF turbidity >= 300 THEN <<[rule |-> "turbidity", kind |-> "warn"]>>
       ELSE <<[rule |-> "turbidity", kind |-> "ok"]>>

\* the records the turbidity check pushes: cut points 900 and 300 NTU in
\* App.jsx, part_001 and part_004, and 10 and 5 NTU (both strict) in part_003
turbidityAdvice(v, turbidity) ==
  IF v = "heuristic_part_003"
  THEN IF turbidity > 10 THEN <<[rule |-> "turbidity", kind |-> "bad"]>>
       ELSE IF turbidity > 5 THEN <<[rule |-> "turbidity", kind |-> "warn"]>>
       ELSE <<[rule |-> "turbidity", kind |-> "ok"]>>
  ELSE IF turbidity >= 900 THEN <<[rule |-> "turbidity", kind |-> "bad"]>>
       ELSE IF turbidity >= 300 THEN <<[rule |-> "turbidity", kind |-> "warn"]>>
       ELSE <<[rule |-> "turbidity", kind |-> "ok"]>>

\* mutant: the final else branch is lost, an acceptable pH pushes nothing
phAdvice_NoElse(v, ph) ==
  CASE v = "capacity" ->
         IF ph < 50 \/ ph > 90 THEN <<[rule |-> "ph", kind |-> "bad"]>>
         ELSE IF ph < 65 \/ ph > 85 THEN <<[rule |-> "ph", kind |-> "warn"]>>
         ELSE <<>>
    [] v = "heuristic" ->
         IF ph < 60 \/ ph > 90 THEN <<[rule |-> "ph", kind |-> "warn"]>>
         ELSE <<>>
    [] OTHER ->
         IF ph < 65 \/ ph > 85 THEN <<[rule |-> "ph", kind |-> "warn"]>>
         ELSE <<>>

\* mutant: the upper cut point of the drinking-water range is 9.0 everywhere
phAdvice_Upper90(v, ph) ==
  CASE v = "capacity" ->
         IF ph < 50 \/ ph > 90 THEN <<[rule |-> "ph", kind |-> "bad"]>>
         ELSE IF ph < 65 \/ ph > 90 THEN <<[rule |-> "ph", kind |-> "warn"]>>
         ELSE <<[rule |-> "ph", kind |-> "ok"]>>
    [] v = "heuristic" ->
         IF ph < 60 \/ ph > 90 THEN <<[rule |-> "ph", kind |-> "warn"]>>
         ELSE <<[rule |-> "ph", kind |-> "ok"]>>
    [] OTHER ->
         IF ph < 65 \/ ph > 90 THEN <<[rule |-> "ph", kind |-> "warn"]>>
         ELSE <<[rule |-> "ph", kind |-> "ok"]>>

\* the records the pH check pushes (pH in 1/PhDen): App.jsx has a "bad" tier
\* outside [5.0, 9.0] and warns outside [6.5, 8.5]; part_004 warns outside
\* [6.0, 9.0]; part_001 and part_003 warn outside [6.5, 8.5]
phAdvice(v, ph) ==
  CASE v = "capacity" ->
         IF ph < 50 \/ ph > 90 THEN <<[rule |-> "ph", kind |-> "bad"]>>
         ELSE IF ph < 65 \/ ph > 85 THEN <<[rule |-> "ph", kind |-> "warn"]>>
         ELSE <<[rule |-> "ph", kind |-> "ok"]>>
    [] v = "heuristic" ->
         IF ph < 60 \/ ph > 90 THEN <<[rule |-> "ph", kind |-> "warn"]>>
         ELSE <<[rule |-> "ph", kind |-> "ok"]>>
    [] OTHER ->
         IF ph < 65 \/ ph > 85 THEN <<[rule |-> "ph", kind |-> "warn"]>>
         ELSE <<[rule |-> "ph", kind |-> "ok"]>>

\* if (!pbPass || !asPass) ... else ...
complianceAdvice(pbPass, asPass) ==
  IF ~pbPass \/ ~asPass THEN <<[rule |-> "compliance", kind |-> "bad"]>>
  ELSE <<[rule |-> "compliance", kind |-> "ok"]>>

\* mutant: the "warn" cut point is 0.30
riskAdvice_Cut30(risk) ==
  IF risk >= Pct(66) THEN <<[rule |-> "risk", kind |-> "bad"]>>
  ELSE IF risk >= Pct(30) THEN <<[rule |-> "risk", kind |-> "warn"]>>
  ELSE <<[rule |-> "risk", kind |-> "ok"]>>

\* if (risk >= 0.66) ... else if (risk >= 0.33) ... else ...
riskAdvice(risk) ==
  IF risk >= Pct(66) THEN <<[rule |-> "risk", kind |-> "bad"]>>
  ELSE IF risk >= Pct(33) THEN <<[rule |-> "risk", kind |-> "warn"]>>
  ELSE <<[rule |-> "risk", kind |-> "ok"]>>

\* const actions = []; followed by the four checks in source order
actions(v, in, pbPass, asPass, risk) ==
  turbidityAdvice(v, in.turbidity) \o phAdvice(v, in.ph)
    \o complianceAdvice(pbPass, asPass) \o riskAdvice(risk)

\* riskLabel(r).level, the level of the pill next to the risk score
riskLabel(r) ==
  IF r < Pct(33) THEN "ok" ELSE IF r < Pct(66) THEN "warn" ELSE "bad"

----------------------------------------------------------------------------
(* Capacity variant: src/ai4water_pwa_newdesign/src/App.jsx *)

\* mutant: the final clamp of the lead removal is lost
pbRemovalCapacity_NoClamp(in) ==
  Pct(95) - turbPenalty(in.turbidity, Pct(30)) - phPenalty(in.ph) - loadPenalty(in.pb + in.as)

pbRemovalCapacity(in) ==
  clamp(Pct(95) - turbPenalty(in.turbidity, Pct(30)) - phPenalty(in.ph)
          - loadPenalty(in.pb + in.as),
        Pct(55), Pct(98))

\* mutant: the arsenic floor is the lead floor
asRemovalCapacity_Floor55(in) ==
  clamp(Pct(90) - turbPenalty(in.turbidity, Pct(30)) - phPenalty(in.ph)
          - loadPenalty(in.pb + in.as),
        Pct(55), Pct(97))

asRemovalCapacity(in) ==
  clamp(Pct(90) - turbPenalty(in.turbidity, Pct(30)) - phPenalty(in.ph)
          - loadPenalty(in.pb + in.as),
        Pct(50), Pct(97))

\* mutant: the daily inlet masses are not floored at 0
removedCapacity_NoFloor(in) ==
  RAdd(RMul(RMul(ConcToRat(in.pb), RInt(in.flow_L_day)), FracToRat(pbRemovalCapacity(in))),
       RMul(RMul(ConcToRat(in.as), RInt(in.flow_L_day)), FracToRat(asRemovalCapacity(in))))

\* total_removed_mg_day before the epsilon floor
removedCapacity(in) ==
  LET pb_in_mg_day == RMax(RInt(0), RMul(ConcToRat(in.pb), RInt(in.flow_L_day)))
      as_in_mg_day == RMax(RInt(0), RMul(ConcToRat(in.as), RInt(in.flow_L_day)))
  IN  RAdd(RMul(pb_in_mg_day, FracToRat(pbRemovalCapacity(in))),
           RMul(as_in_mg_day, FracToRat(asRemovalCapacity(in))))

\* mutant: the turbidity term is taken below the 200 NTU baseline, not above it
riskCapacity_TurbidityInverted(in) ==
  clamp(Pct(10)
          + clamp((200 - in.turbidity) * (Scale \div 1200), 0, Pct(45))
          + clamp((in.pb + in.as) * (Scale \div (12 * ConcDen)), 0, Pct(25))
          + clamp((Abs(in.ph - 75) * Scale) \div 75, 0, Pct(15))
          + clamp(in.flow_L_day * (Scale \div 8000), 0, Pct(15)),
        Pct(5), Pct(95))

\* mutant: the overall clamp of the risk is lost
riskCapacity_NoFinalClamp(in) ==
  Pct(10)
    + clamp((in.turbidity - 200) * (Scale \div 1200), 0, Pct(45))
    + clamp((in.pb + in.as) * (Scale \div (12 * ConcDen)), 0, Pct(25))
    + clamp((Abs(in.ph - 75) * Scale) \div 75, 0, Pct(15))
    + clamp(in.flow_L_day * (Scale \div 8000), 0, Pct(15))

riskCapacity(in) ==
  clamp(Pct(10)
          + clamp((in.turbidity - 200) * (Scale \div 1200), 0, Pct(45))
          + clamp((in.pb + in.as) * (Scale \div (12 * ConcDen)), 0, Pct(25))
          + clamp((Abs(in.ph - 75) * Scale) \div 75, 0, Pct(15))
          + clamp(in.flow_L_day * (Scale \div 8000), 0, Pct(15)),
        Pct(5), Pct(95))

predictCapacity(in) ==
  LET pbRemoval == pbRemovalCapacity(in)
      asRemoval == asRemovalCapacity(in)
      ff == foulingFactor(in.turbidity)
      cap == totalCapacity_mg(in.mediaMass_g, in.capacity_mg_g, ff)
      removed == removedCapacity(in)
      rulDays == lifeDays(cap, removed)
      pbOut == outlet(in.pb, pbRemoval)
      asOut == outlet(in.as, asRemoval)
      pbPass == pass(pbOut, limits.pb)
      asPass == pass(asOut, limits.as)
      risk == riskCapacity(in)
  IN  [pbRemovalPct |-> pbRemoval * 100,
       asRemovalPct |-> asRemoval * 100,
       pbOut |-> pbOut,
       asOut |-> asOut,
       risk |-> risk,
       rulDays |-> rulDays,
       totalTreatable_L |-> RMul(rulDays, RInt(in.flow_L_day)),
       totalCapacity_mg |-> cap,
       total_removed_mg_day |-> RMax(Epsilon, removed),
       foulingFactor |-> ff,
       compliance |-> [pbPass |-> pbPass, asPass |-> asPass],
       actions |-> actions("capacity", in, pbPass, asPass, risk)]

----------------------------------------------------------------------------
(* Bennyfilt variant: src/unnamed/part_005 (static dashboard) *)

MEDIA_MASS_G == 3000
CAPACITY_MG_G == 6

\* mutant: the lead floor of the configurable variant (0.55) is used
pbRemovalBennyfilt_Floor55(in) ==
  clamp(Pct(95) - turbPenalty(in.turbidity, Pct(40)), Pct(55), Pct(98))

pbRemovalBennyfilt(in) == clamp(Pct(95) - turbPenalty(in.turbidity, Pct(40)), Pct(60), Pct(98))

asRemovalBennyfilt(in) == clamp(Pct(90) - turbPenalty(in.turbidity, Pct(40)), Pct(55), Pct(97))

\* pb_removed_mg_day + as_removed_mg_day
removedBennyfilt(in) ==
  RAdd(RMul(RMul(ConcToRat(in.pb), RInt(in.flow_L_day)), FracToRat(pbRemovalBennyfilt(in))),
       RMul(RMul(ConcToRat(in.as), RInt(in.flow_L_day)), FracToRat(asRemovalBennyfilt(in))))

predictBennyfilt(in) ==
  LET pbRemoval == pbRemovalBennyfilt(in)
      asRemoval == asRemovalBennyfilt(in)
      ff == foulingFactor(in.turbidity)
      cap == totalCapacity_mg(MEDIA_MASS_G, CAPACITY_MG_G, ff)
      removed == removedBennyfilt(in)
      days == lifeDays(cap, removed)
  IN  [pbRemovalPct |-> pbRemoval * 100,
       asRemovalPct |-> asRemoval * 100,
       pbOut |-> outlet(in.pb, pbRemoval),
       asOut |-> outlet(in.as, asRemoval),
       days |-> days,
       totalTreatable_L |-> RMul(days, RInt(in.flow_L_day)),
       foulingFactor |-> ff,
       removed_mg_day |-> RMax(Epsilon, removed),
       totalCapacity_mg |-> cap]

----------------------------------------------------------------------------
(* Heuristic variants: "heuristic" is src/unnamed/part_004;                 *)
(* "heuristic_part_001" and "heuristic_part_003" are src/unnamed/part_001   *)
(* and part_003, which compute the same numbers and differ in the cut       *)
(* points of the recommendations and in the defaults                        *)

pbRemovalHeuristic(in) ==
  clamp(Pct(95) - turbPenalty(in.turbidity, Pct(30)) - phPenalty(in.ph)
          - loadPenalty(in.pb + in.as),
        Pct(60), Pct(98))

asRemovalHeuristic(in) ==
  clamp(Pct(90) - turbPenalty(in.turbidity, Pct(30)) - phPenalty(in.ph)
          - loadPenalty(in.pb + in.as),
        Pct(55), Pct(97))

riskHeuristic(in) ==
  clamp(Pct(12)
          + clamp((in.turbidity - 200) * (Scale \div 1200), 0, Pct(45))
          + clamp((in.pb + in.as) * (Scale \div (12 * ConcDen)), 0, Pct(35))
          + clamp((Abs(in.ph - 75) * Scale) \div 75, 0, Pct(20)),
        Pct(5), Pct(95))

\* 100 * stress, in units of 1/Scale:
\* 0.45*clamp(turbidity/1200,0,1) + 0.35*clamp(load/12.0,0,1) + 0.20*clamp(|ph-7.5|/7.5,0,1)
stress100(in) ==
  45 * clamp(in.turbidity * (Scale \div 1200), 0, Scale)
    + 35 * clamp((in.pb + in.as) * (Scale \div (12 * ConcDen)), 0, Scale)
    + 20 * clamp((Abs(in.ph - 75) * Scale) \div 75, 0, Scale)

\* mutant: truncation (Math.floor) instead of Math.round
round_Truncating(n, d) == n \div d

\* Math.round(x) for x = n / d, d > 0: floor(x + 1/2)
round(n, d) == (2 * n + d) \div (2 * d)

\* Math.round(clamp(30 - 24 * stress, 3, 30))
rulDaysHeuristic(in) ==
  round(clamp(30 * 100 * Scale - 24 * stress100(in), 3 * 100 * Scale, 30 * 100 * Scale),
        100 * Scale)

\* v: the dashboard, whose recommendation cut points differ
predictHeuristic(v, in) ==
  LET pbRemoval == pbRemovalHeuristic(in)
      asRemoval == asRemovalHeuristic(in)
      pbPass == pass(outlet(in.pb, pbRemoval), limits.pb)
      asPass == pass(outlet(in.as, asRemoval), limits.as)
  IN  [pbRemovalPct |-> pbRemoval * 100,
       asRemovalPct |-> asRemoval * 100,
       pbOut |-> outlet(in.pb, pbRemoval),
       asOut |-> outlet(in.as, asRemoval),
       risk |-> riskHeuristic(in),
       rulDays |-> rulDaysHeuristic(in),
       compliance |-> [pbPass |-> pbPass, asPass |-> asPass],
       actions |-> actions(v, in, pbPass, asPass, riskHeuristic(in))]

predict(v, in) ==
  CASE v = "capacity" -> predictCapacity(in)
    [] v = "bennyfilt" -> predictBennyfilt(in)
    [] v \in Heuristic -> predictHeuristic(v, in)

----------------------------------------------------------------------------
(* The fourteen-point trend shown under the prediction *)

\* const points = 14 (pts in the Bennyfilt dashboards)
points == 14

\* mutant: the treated volume is the plain day x flow product, not capped
makeTrend_TreatedUncapped(rulDays, flow_L_day, totalTreatable_L) ==
  LET safeDays == RMax(rulDays, <<1, 10^6>>)
  IN  [i \in 1..points |->
         LET frac == Norm(i, points)
             remainingDays == RMax(RInt(0), RMul(safeDays, RSub(RInt(1), frac)))
         IN  [day |-> i,
              treated |-> RInt(i * flow_L_day),
              remaining |-> RClamp(RMul(RDiv(remainingDays, safeDays), RInt(100)),
                                   RInt(0), RInt(100))]]

\* mutant: the decay runs over the predicted life (day / safeDays), not over
\* the fourteen-point window
makeTrend_DecayOverLife(rulDays, flow_L_day, totalTreatable_L) ==
  LET safeDays == RMax(rulDays, <<1, 10^6>>)
  IN  [i \in 1..points |->
         LET remainingDays == RMax(RInt(0), RSub(safeDays, RInt(i)))
         IN  [day |-> i,
              treated |-> RMin(totalTreatable_L, RInt(i * flow_L_day)),
              remaining |-> RClamp(RMul(RDiv(remainingDays, safeDays), RInt(100)),
                                   RInt(0), RInt(100))]]

\* makeTrend of App.jsx; the point of index i (from 0) has day = i + 1
makeTrend(rulDays, flow_L_day, totalTreatable_L) ==
  LET safeDays == RMax(rulDays, <<1, 10^6>>)
  IN  [i \in 1..points |->
         LET frac == Norm(i, points)
             remainingDays == RMax(RInt(0), RMul(safeDays, RSub(RInt(1), frac)))
         IN  [day |-> i,
              treated |-> RMin(totalTreatable_L, RInt(i * flow_L_day)),
              remaining |-> RClamp(RMul(RDiv(remainingDays, safeDays), RInt(100)),
                                   RInt(0), RInt(100))]]

\* the trend of update() in part_005 and of the Bennyfilt React app (days
\* is floored at 1e-6 and then not used)
trendBennyfilt(days, flow, totalL) ==
  [i \in 1..points |->
     [day |-> i,
      treated |-> RMin(totalL, RInt(i * flow)),
      remaining |-> RMul(RMax(RInt(0), RSub(RInt(1), Norm(i, points))), RInt(100))]]

\* makeTrend(rulDays) of the heuristic dashboards: remaining capacity and
\* breakthrough risk, both in percent
makeTrendHeuristic(rulDays) ==
  [i \in 1..points |->
     LET frac == Norm(i, points)
         capacity == RClamp(RSub(RInt(100), Norm(10000 * i, 55 * rulDays)),
                            RInt(8), RInt(100))
         breakthrough ==
           RMul(RClamp(RAdd(<<3, 20>>, RMul(frac, RSub(RInt(1), RDiv(capacity, RInt(100))))),
                       <<1, 20>>, <<19, 20>>),
                RInt(100))
     IN  [day |-> i, capacity |-> capacity, breakthrough |-> breakthrough]]

\* the arguments each dashboard computes its trend from
trendArgsOf(v, in, o) ==
  CASE v = "capacity" -> <<o.rulDays, in.flow_L_day, o.totalTreatable_L>>
    [] v = "bennyfilt" -> <<o.days, in.flow_L_day, o.totalTreatable_L>>
    [] v \in Heuristic -> <<o.rulDays>>

\* the trend each dashboard shows
trendOf(v, args) ==
  CASE v = "capacity" -> makeTrend(args[1], args[2], args[3])
    [] v = "bennyfilt" -> trendBennyfilt(args[1], args[2], args[3])
    [] v \in Heuristic -> makeTrendHeuristic(args[1])

----------------------------------------------------------------------------
(* Input values the form fields are driven through *)

MaxPbSteps == 2
MaxAsSteps == 2
MaxTurbiditySteps == 4
MaxFlowSteps == 2

\* lead, 1/ConcDen mg/L: -0.10, 0, 0.10, 0.20, ...
PbValues == {10 * k : k \in -1..MaxPbSteps}
\* arsenic, 1/ConcDen mg/L: 0, 1.00, 2.00, ...
AsValues == {100 * k : k \in 0..MaxAsSteps}
\* pH, 1/PhDen
PhValues == {55, 70, 75, 85}
\* turbidity, NTU: 0, 250, 500, ...
TurbidityValues == {250 * k : k \in 0..MaxTurbiditySteps}
\* flow, L/day: -1000, 0, 1000, 2000, ...
FlowValues == {1000 * k : k \in -1..MaxFlowSteps}
\* media mass, g
MediaMassValues == {0, 3000}
\* media capacity, mg/g
CapacityValues == {3, 6}

Variants == {"capacity", "bennyfilt"} \cup Heuristic

\* const DEFAULTS = {...} / useState(...) of each dashboard
DEFAULTS(v) ==
  CASE v = "capacity" ->
         {[pb |-> 20, as |-> 100, ph |-> 62, turbidity |-> 500, flow_L_day |-> 2000,
           mediaMass_g |-> 3000, capacity_mg_g |-> 6]}
    [] v = "bennyfilt" ->
         {[pb |-> 20, as |-> 100, turbidity |-> 500, flow_L_day |-> 2000]}
    [] v \in {"heuristic", "heuristic_part_001"} ->
         {[pb |-> 20, as |-> 5, ph |-> 80, turbidity |-> 840]}
    [] v = "heuristic_part_003" ->
         {[pb |-> 20, as |-> 5, ph |-> 80, turbidity |-> 40]}

----------------------------------------------------------------------------
(* Input fields: from the text typed to the number given to predict.        *)
(* A text is a sequence of one-character strings.                           *)

NoEntry == [field |-> "", text |-> <<>>]

\* a number that is not a number: denominator 0
NaN == <<0, 0>>

DecimalDigits == <<"0", "1", "2", "3", "4", "5", "6", "7", "8", "9">>
IsDigit(ch) == \E i \in 1..10 : DecimalDigits[i] = ch
DigitValue(ch) == (CHOOSE i \in 1..10 : DecimalDigits[i] = ch) - 1

\* the index of the last digit of the run of digits of s that starts at i
\* (i - 1 when s has no digit at i)
RECURSIVE DigitsEnd(_, _)
DigitsEnd(s, i) ==
  IF i <= Len(s) /\ IsDigit(s[i]) THEN DigitsEnd(s, i + 1) ELSE i - 1

\* the integer written by the digits s[i..j], continuing from acc
RECURSIVE DigitsValue(_, _, _, _)
DigitsValue(s, i, j, acc) ==
  IF i > j THEN acc ELSE DigitsValue(s, i + 1, j, 10 * acc + DigitValue(s[i]))

\* JavaScript's parseFloat: the longest prefix of s that is a decimal
\* literal (sign, digits, fraction; exponents are not modelled), or NaN
parseFloat_IntegerPart(s) ==
  LET signed == Len(s) > 0 /\ s[1] \in {"-", "+"}
      start == IF signed THEN 2 ELSE 1
      intEnd == DigitsEnd(s, start)
      whole == DigitsValue(s, start, intEnd, 0)
      sign == IF signed /\ s[1] = "-" THEN -1 ELSE 1
  IN IF intEnd < start THEN NaN ELSE Norm(sign * whole, 1)

parseFloat(s) ==
  LET signed == Len(s) > 0 /\ s[1] \in {"-", "+"}
      start == IF signed THEN 2 ELSE 1
      intEnd == DigitsEnd(s, start)
      hasDot == intEnd < Len(s) /\ s[intEnd + 1] = "."
      fracEnd == IF hasDot THEN DigitsEnd(s, intEnd + 2) ELSE intEnd
      nInt == intEnd - start + 1
      nFrac == IF hasDot THEN fracEnd - (intEnd + 1) ELSE 0
      whole == DigitsValue(s, start, intEnd, 0)
      all == IF hasDot THEN DigitsValue(s, intEnd + 2, fracEnd, whole) ELSE whole
      sign == IF signed /\ s[1] = "-" THEN -1 ELSE 1
  IN IF nInt + nFrac = 0 THEN NaN ELSE Norm(sign * all, 10 ^ nFrac)

\* the value of <input type="number">: the text when it is a valid
\* floating-point number (an optional "-", digits, an optional fraction with
\* at least one digit), the empty string otherwise
IsValidFloat(s) ==
  LET start == IF Len(s) > 0 /\ s[1] = "-" THEN 2 ELSE 1
      intEnd == DigitsEnd(s, start)
      hasDot == intEnd < Len(s) /\ s[intEnd + 1] = "."
      fracEnd == IF hasDot THEN DigitsEnd(s, intEnd + 2) ELSE intEnd
  IN /\ fracEnd = Len(s)
     /\ fracEnd >= start
     /\ hasDot => fracEnd >= intEnd + 2

inputValue(s) == IF IsValidFloat(s) THEN s ELSE <<>>

\* e.target.value || "0"
orZero(s) == IF s = <<>> THEN <<"0">> ELSE s

\* the units the model keeps each field in
UnitOf(field) ==
  CASE field \in {"pb", "as"} -> ConcDen
    [] field = "ph" -> PhDen
    [] OTHER -> 1

\* a number in the units of its field (the texts entered are multiples of
\* the unit)
InUnits(field, q) == (q[1] * UnitOf(field)) \div q[2]

\* onChange={(e) => setX(parseFloat(e.target.value || "0"))}
coerce(field, text) == InUnits(field, parseFloat(orZero(inputValue(text))))

\* the min and max attributes of the field's element, in the field's units
\* (-1 where the attribute is absent)
DeclaredMin(v, field) ==
  IF v \in {"capacity", "bennyfilt"} THEN (IF field = "ph" THEN 50 ELSE 0) ELSE -1

DeclaredMax(v, field) ==
  CASE v = "capacity" /\ field = "ph" -> 90
    [] v \in {"capacity", "bennyfilt"} /\ field = "turbidity" -> 1500
    [] OTHER -> -1

InRange(v, field, x) ==
  /\ DeclaredMin(v, field) # -1 => x >= DeclaredMin(v, field)
  /\ DeclaredMax(v, field) # -1 => x <= DeclaredMax(v, field)

----------------------------------------------------------------------------
(* Static dashboard: the inputs saved to and restored from local storage    *)

NoStorage == [pb |-> <<>>, as |-> <<>>, turb |-> <<>>, flow |-> <<>>]

\* the value JSON.parse gives for null
JsonNull == <<1, 0>>

NullText == <<"n", "u", "l", "l">>

\* the decimal digits of a natural number
RECURSIVE NaturalText(_)
NaturalText(n) ==
  IF n < 10 THEN <<DecimalDigits[n + 1]>>
  ELSE NaturalText(n \div 10) \o <<DecimalDigits[(n % 10) + 1]>>

\* Number::toString of a finite number with at most two decimals: no
\* trailing zeros, no decimal point for a whole number
NumberToString(q) ==
  LET hundredths == (Abs(q[1]) * 100) \div q[2]
      frac == hundredths % 100
      fraction == IF frac = 0 THEN <<>>
                  ELSE IF frac % 10 = 0 THEN <<".", DecimalDigits[(frac \div 10) + 1]>>
                  ELSE <<".", DecimalDigits[(frac \div 10) + 1],
                         DecimalDigits[(frac % 10) + 1]>>
  IN IF q[2] = 0 THEN <<"N", "a", "N">>
     ELSE (IF q[1] < 0 THEN <<"-">> ELSE <<>>)
            \o NaturalText(hundredths \div 100) \o fraction

\* JSON.stringify of a number: null for a number that is not finite
stringifyNumber(q) == IF q[2] = 0 THEN NullText ELSE NumberToString(q)

\* the number a field of the inputs holds
NumberOf(field, x) == Norm(x, UnitOf(field))

\* JSON.stringify({pb, as, turb, flow})
stringify(in) ==
  [pb |-> stringifyNumber(NumberOf("pb", in.pb)),
   as |-> stringifyNumber(NumberOf("as", in.as)),
   turb |-> stringifyNumber(NumberOf("turbidity", in.turbidity)),
   flow |-> stringifyNumber(NumberOf("flow_L_day", in.flow_L_day))]

\* JSON.parse of one member of the stored object
parseMember(text) == IF text = NullText THEN JsonNull ELSE parseFloat(text)

\* saved.x ?? fallback
orFallback_Falsy(q, fallback) == IF q = JsonNull \/ q[1] = 0 THEN fallback ELSE q

orFallback(q, fallback) == IF q = JsonNull THEN fallback ELSE q

\* $(id).value = saved.x ?? fallback, as readInputs() then reads the field
restoreField(field, text, fallback) ==
  coerce(field, NumberToString(orFallback(parseMember(text), fallback)))

\* the fields of a fresh document after the try block of init()
restored(item) ==
  IF item = NoStorage THEN CHOOSE d \in DEFAULTS("bennyfilt") : TRUE
  ELSE [pb |-> restoreField("pb", item.pb, <<1, 5>>),
        as |-> restoreField("as", item.as, <<1, 1>>),
        turbidity |-> restoreField("turbidity", item.turb, <<500, 1>>),
        flow_L_day |-> restoreField("flow_L_day", item.flow, <<2000, 1>>)]

----------------------------------------------------------------------------
(* Service workers: constants and cache lookups *)

\* the four worker scripts of the repository
Workers == {"ai4water", "bennyfilt", "docs", "part_001"}

\* the worker each dashboard registers (navigator.serviceWorker.register)
WorkersOf(v) ==
  CASE v = "capacity" -> {"ai4water"}
    [] v = "bennyfilt" -> {"bennyfilt", "docs"}
    [] v = "heuristic_part_001" -> {"part_001"}
    [] OTHER -> {}

\* the prefix of the worker's URLs: "./" relative to the scope, "/" absolute
root(w) == IF w = "part_001" THEN "/" ELSE "./"

\* const CACHE / CACHE_NAME
CACHE(w) ==
  CASE w = "ai4water" -> "ai4water-cache-v2"
    [] w = "bennyfilt" -> "bennyfilt-cache-v3"
    [] w = "docs" -> "bennyfilt-static-v1"
    [] w = "part_001" -> "ai4water-cache-v1"

\* const CORE / APP_SHELL
CORE(w) ==
  CASE w = "ai4water" ->
         {"./", "./index.html", "./manifest.webmanifest", "./icon-192.png",
          "./icon-512.png", "./apple-touch-icon.png"}
    [] w = "bennyfilt" ->
         {"./", "./index.html", "./manifest.webmanifest", "./logo.png",
          "./icon-192.png", "./icon-512.png", "./apple-touch-icon.png"}
    [] w = "docs" ->
         {"./", "./index.html", "./styles.css", "./app.js",
          "./manifest.webmanifest", "./logo.png", "./icon-192.png",
          "./icon-512.png", "./apple-touch-icon.png", "./.nojekyll"}
    [] w = "part_001" ->
         {"/", "/index.html", "/manifest.webmanifest", "/icon-192.png",
          "/icon-512.png"}

\* the requests a client makes: the pages it navigates to and a
\* subresource it loads (the bundle, which is not precached)
NavigationUrls(w) == {root(w), root(w) \o "report.html"}
AssetUrls(w) == {root(w) \o "assets/index.js"}
Methods == {"GET", "POST"}
Statuses == {200, 404}

Requests(w) ==
  [url : NavigationUrls(w), mode : {"navigate"}, method : Methods]
    \cup [url : AssetUrls(w), mode : {"no-cors"}, method : Methods]

\* a page (or a prefetch) may also load the document as a subresource
ShellRequests(w) ==
  {[url |-> root(w) \o "index.html", mode |-> "no-cors", method |-> "GET"]}

\* the clients (tabs) the worker controls, each with at most one request
\* in flight
MaxClients == 2
Clients == 1..MaxClients

AllKeys == UNION {CORE(w) \cup AssetUrls(w) : w \in Workers}

NoRequest == [url |-> "", mode |-> "", method |-> ""]
NoResponse == [url |-> "", status |-> 0]
NoEvent == [req |-> NoRequest, stage |-> "idle", res |-> NoResponse]
NoDelivery == [req |-> NoRequest, from |-> "", res |-> NoResponse]

\* caches.match(key) for a GET key: only the worker's own cache exists
\* while it handles fetch events (activate has deleted the others)
match(w, names, entries, key) ==
  IF CACHE(w) \in names /\ key \in AllKeys THEN entries[key] ELSE NoResponse

\* caches.match(req): a request whose method is not GET matches nothing
matchRequest(w, names, entries, req) ==
  IF req.method = "GET" THEN match(w, names, entries, req.url) ELSE NoResponse

----------------------------------------------------------------------------
(* State machine: one dashboard, its inputs and the prediction derived from *)
(* them                                                                     *)

\* the dependency array of the outputs' useMemo
outputsDeps_WithoutTurbidity(v) == DOMAIN (CHOOSE d \in DEFAULTS(v) : TRUE) \ {"turbidity"}

outputsDeps(v) == DOMAIN (CHOOSE d \in DEFAULTS(v) : TRUE)

\* useMemo(() => fresh, deps): the kept value while the dependencies are
\* the ones of the last computation
useMemo(kept, fresh, lastDeps, deps) == IF deps = lastDeps THEN kept ELSE fresh

\* const exportPayload = {generatedAt, site, inputs: {...}, outputs}
exportPayload(in, o) == [inputs |-> in, outputs |-> o]

Init ==
  /\ variant \in Variants
  /\ inputs \in DEFAULTS(variant)
  /\ out = predict(variant, inputs)
  /\ trendArgs = trendArgsOf(variant, inputs, out)
  /\ entry = NoEntry
  /\ payload = exportPayload(inputs, out)
  /\ storage = NoStorage
  /\ lastWrite = "none"
  /\ thrown = FALSE
  /\ listening = FALSE
  /\ registerRequested = FALSE
  /\ worker = "none"
  /\ swState = "unregistered"
  /\ cacheNames = {}
  /\ cache = [k \in AllKeys |-> NoResponse]
  /\ deleting = {}
  /\ online = TRUE
  /\ events = [c \in Clients |-> NoEvent]
  /\ delivered = NoDelivery

\* a render with new input values: the prediction, the trend and the
\* report are derived again
render(newInputs) ==
  /\ inputs' = newInputs
  /\ out' = useMemo(out, predict(variant, newInputs),
                    [f \in outputsDeps(variant) |-> inputs[f]],
                    [f \in outputsDeps(variant) |-> newInputs[f]])
  /\ trendArgs' = trendArgsOf(variant, newInputs, out')
  /\ payload' = exportPayload(newInputs, out')
  /\ UNCHANGED variant
  /\ UNCHANGED swVars

\* the state setter of one field and the render that follows
setValue(field, value) ==
  /\ field \in DOMAIN inputs
  /\ render([inputs EXCEPT ![field] = value])
  /\ UNCHANGED documentVars

\* an input event on one field, given by the number it yields
Change(field, value) ==
  /\ setValue(field, value)
  /\ UNCHANGED entry

setPb == \E v \in PbValues : Change("pb", v)
setAs == \E v \in AsValues : Change("as", v)
setPh == \E v \in PhValues : Change("ph", v)
setTurbidity == \E v \in TurbidityValues : Change("turbidity", v)
setFlow == \E v \in FlowValues : Change("flow_L_day", v)
setMediaMass == \E v \in MediaMassValues : Change("mediaMass_g", v)
setCapacity == \E v \in CapacityValues : Change("capacity_mg_g", v)

Next ==
  \/ setPb
  \/ setAs
  \/ setPh
  \/ setTurbidity
  \/ setFlow
  \/ setMediaMass
  \/ setCapacity

Spec == Init /\ [][Next]_vars

\* the trend on display: a function of the arguments of its last computation
trend == trendOf(variant, trendArgs)

----------------------------------------------------------------------------
(* The same input events on a grid that is fine around the cut points of   *)
(* the recommendations (pH 6.0, 6.5, 8.5, 9.0; turbidity 5, 10, 300, 900;  *)
(* outlet 0.01 mg/L) and coarse elsewhere                                  *)

MaxPhSteps == 10
MaxTurbidityBands == 4

\* pH, 1/PhDen: 4.5, 5.0, ..., 9.5
FinePhValues == {45 + 5 * k : k \in 0..MaxPhSteps}
\* turbidity, NTU: around 5 and 10, 98 (where the outlet of lead 0.10 is
\* exactly 0.01 at pH 7.5), and each band edge 300, 600, 900, 1200
\* (at 1200 the fouling factor is at its floor) with its predecessor
FineTurbidityValues ==
  {0, 5, 6, 10, 11, 98} \cup {300 * k - d : k \in 1..MaxTurbidityBands, d \in {0, 1}}
\* lead and arsenic, 1/ConcDen mg/L
FinePbValues == {-10, 0, 10, 30}
FineAsValues == {0, 100}

setPhFine == \E v \in FinePhValues : Change("ph", v)
setTurbidityFine == \E v \in FineTurbidityValues : Change("turbidity", v)
setPbFine == \E v \in FinePbValues : Change("pb", v)
setAsFine == \E v \in FineAsValues : Change("as", v)

NextAdvice ==
  \/ setPhFine
  \/ setTurbidityFine
  \/ setPbFine
  \/ setAsFine

SpecAdvice == Init /\ [][NextAdvice]_vars

----------------------------------------------------------------------------
(* State machine: the dashboard driven by the texts typed in its fields     *)

\* texts typed in the lead, pH and turbidity fields: empty, not numbers,
\* numbers inside and outside the declared ranges
TextsOf(field) ==
  CASE field = "pb" ->
         {<<>>, <<"a", "b", "c">>, <<"0", ".", "3">>, <<"-", "0", ".", "1">>}
    [] field = "ph" ->
         {<<>>, <<"-">>, <<"7", ".", "5">>, <<"1", "2">>, <<"4", ".", "5">>}
    [] field = "turbidity" ->
         {<<>>, <<"1", "e">>, <<"3", "0", "0">>, <<"1", "6", "0", "0">>, <<"-", "5">>}

EntryFields == {"pb", "ph", "turbidity"}

\* the input event of one field with the text the user has typed
onChange(field, text) ==
  /\ setValue(field, coerce(field, text))
  /\ entry' = [field |-> field, text |-> text]

NextEntry ==
  \E field \in EntryFields : \E text \in TextsOf(field) : onChange(field, text)

SpecEntry == Init /\ [][NextEntry]_vars

----------------------------------------------------------------------------
(* State machine: the static dashboard (src/unnamed/part_005), with its     *)
(* local storage and its page loads                                         *)

\* update(): the prediction, the trend and the report are computed from
\* the fields and shown, then the inputs are written to local storage; the
\* write is the last statement and is not guarded, so when it throws the
\* exception leaves update()
update(fields, writeFails) ==
  /\ inputs' = fields
  /\ out' = predict(variant, fields)
  /\ trendArgs' = trendArgsOf(variant, fields, out')
  /\ payload' = exportPayload(fields, out')
  /\ storage' = IF writeFails THEN storage ELSE stringify(fields)
  /\ lastWrite' = IF writeFails THEN "failed" ELSE "stored"
  /\ thrown' = writeFails
  /\ UNCHANGED variant
  /\ UNCHANGED swVars

\* DOMContentLoaded of a page load: init() restores the fields, attaches
\* the listeners, calls update() and then asks for the service worker
init(writeFails) ==
  /\ variant = "bennyfilt"
  /\ update(restored(storage), writeFails)
  /\ listening' = TRUE
  /\ registerRequested' = ~writeFails
  /\ entry' = NoEntry

\* an input event of one field with the text typed
onInput(field, text, writeFails) ==
  /\ variant = "bennyfilt"
  /\ listening
  /\ update([inputs EXCEPT ![field] = coerce(field, text)], writeFails)
  /\ entry' = [field |-> field, text |-> text]
  /\ UNCHANGED <<listening, registerRequested>>

StaticFields == {"pb", "turbidity", "flow_L_day"}

\* texts typed in the static dashboard
StaticTextsOf(field) ==
  CASE field = "pb" -> {<<>>, <<"0", ".", "3">>}
    [] field = "turbidity" -> {<<"0">>, <<"3", "0", "0">>}
    [] field = "flow_L_day" -> {<<>>, <<"1", "0", "0", "0">>}

NextStatic ==
  \/ \E writeFails \in BOOLEAN : init(writeFails)
  \/ \E field \in StaticFields : \E text \in StaticTextsOf(field) :
       \E writeFails \in BOOLEAN : onInput(field, text, writeFails)

SpecStatic == Init /\ [][NextStatic]_vars

----------------------------------------------------------------------------
(* State machine: the service worker of a page, from registration on        *)

Response(url, status) == [url |-> url, status |-> status]

\* the entry a navigation falls back to:
\* caches.match("./") || caches.match("./index.html"); the left operand is
\* a Promise, which is truthy, so the right operand is never evaluated
navigationFallback_UnknownKey(w, names, entries) ==
  match(w, names, entries, "index.html")

navigationFallback(w, names, entries) == match(w, names, entries, root(w))

\* the synchronous part of the fetch handler: where the request goes
handlerStage(w, req) ==
  IF w = "docs" /\ req.method # "GET" THEN "unhandled"
  ELSE IF req.mode = "navigate" THEN "navigateFetch"
  ELSE "match"

\* whether the cache-first branch stores the network's response
storesResponse_AnyStatus(w, req, res) ==
  IF w = "docs" THEN TRUE
  ELSE req.method = "GET"

storesResponse(w, req, res) ==
  IF w = "docs" THEN res.status = 200
  ELSE req.method = "GET" /\ res.status = 200

\* the key a fetch event writes its response under
putKey(w, req) == IF req.mode = "navigate" THEN root(w) ELSE req.url

\* window load: navigator.serviceWorker.register(...) and the install event
\* up to caches.open(CACHE); others are caches the origin already holds
register(w, others) ==
  /\ swState = "unregistered"
  /\ w \in WorkersOf(variant)
  /\ worker' = w
  /\ swState' = "installing"
  /\ cacheNames' = cacheNames \cup others \cup {CACHE(w)}
  /\ UNCHANGED <<cache, deleting, online, events, delivered>>
  /\ UNCHANGED pageVars

\* c.addAll(CORE) resolves: every asset was fetched with an ok status and
\* all of them are stored together
addAllResolves ==
  /\ swState = "installing"
  /\ online
  /\ cache' = [k \in AllKeys |->
                 IF k \in CORE(worker) THEN Response(k, 200) ELSE cache[k]]
  /\ swState' = "precached"
  /\ UNCHANGED <<worker, cacheNames, deleting, online, events, delivered>>
  /\ UNCHANGED pageVars

\* c.addAll(CORE) rejects (no network, or an asset without an ok status):
\* nothing is stored, skipWaiting() is not called, the install fails
addAllRejects ==
  /\ swState = "installing"
  /\ swState' = "redundant"
  /\ UNCHANGED <<worker, cacheNames, cache, deleting, online, events, delivered>>
  /\ UNCHANGED pageVars

\* .then(() => self.skipWaiting()): the promise given to waitUntil settles
skipWaiting_BeforeAddAll ==
  /\ swState \in {"installing", "precached"}
  /\ swState' = "installed"
  /\ UNCHANGED <<worker, cacheNames, cache, deleting, online, events, delivered>>
  /\ UNCHANGED pageVars

skipWaiting ==
  /\ swState = "precached"
  /\ swState' = "installed"
  /\ UNCHANGED <<worker, cacheNames, cache, deleting, online, events, delivered>>
  /\ UNCHANGED pageVars

\* the activate event: caches.keys() and one caches.delete(k) per other cache
activate ==
  /\ swState = "installed"
  /\ swState' = "activating"
  /\ deleting' = cacheNames \ {CACHE(worker)}
  /\ UNCHANGED <<worker, cacheNames, cache, online, events, delivered>>
  /\ UNCHANGED pageVars

deleteResolves(k) ==
  /\ swState = "activating"
  /\ k \in deleting
  /\ deleting' = deleting \ {k}
  /\ cacheNames' = cacheNames \ {k}
  /\ UNCHANGED <<worker, swState, cache, online, events, delivered>>
  /\ UNCHANGED pageVars

\* Promise.all(...) resolved, then self.clients.claim()
claim_BeforeDeletions ==
  /\ swState = "activating"
  /\ swState' = "activated"
  /\ deleting' = {}
  /\ UNCHANGED <<worker, cacheNames, cache, online, events, delivered>>
  /\ UNCHANGED pageVars

claim ==
  /\ swState = "activating"
  /\ deleting = {}
  /\ swState' = "activated"
  /\ UNCHANGED <<worker, cacheNames, cache, deleting, online, events, delivered>>
  /\ UNCHANGED pageVars

\* a later page load registers the script again after a failed install
reload ==
  /\ swState = "redundant"
  /\ swState' = "unregistered"
  /\ UNCHANGED <<worker, cacheNames, cache, deleting, online, events, delivered>>
  /\ UNCHANGED pageVars

goOffline ==
  /\ online
  /\ online' = FALSE
  /\ UNCHANGED <<worker, swState, cacheNames, cache, deleting, events, delivered>>
  /\ UNCHANGED pageVars

goOnline ==
  /\ ~online
  /\ online' = TRUE
  /\ UNCHANGED <<worker, swState, cacheNames, cache, deleting, events, delivered>>
  /\ UNCHANGED pageVars

\* the fetch event of client c for request req: the handler's synchronous
\* part
onFetch(c, req) ==
  /\ swState = "activated"
  /\ events[c].stage = "idle"
  /\ req \in Requests(worker) \cup ShellRequests(worker)
  /\ events' = [events EXCEPT
                  ![c] = [req |-> req, stage |-> handlerStage(worker, req),
                          res |-> NoResponse]]
  /\ UNCHANGED <<worker, swState, cacheNames, cache, deleting, online, delivered>>
  /\ UNCHANGED pageVars

\* caches.match(req) of the cache-first branch resolves
matchResolves(c) ==
  /\ events[c].stage = "match"
  /\ LET req == events[c].req
         cached == matchRequest(worker, cacheNames, cache, req)
     IN IF cached # NoResponse
        THEN /\ delivered' = [req |-> req, from |-> "cache", res |-> cached]
             /\ events' = [events EXCEPT ![c] = NoEvent]
        ELSE /\ events' = [events EXCEPT ![c].stage = "fetch"]
             /\ UNCHANGED delivered
  /\ UNCHANGED <<worker, swState, cacheNames, cache, deleting, online>>
  /\ UNCHANGED pageVars

\* fetch(req) resolves with the server's response
fetchResolves(c, status) ==
  /\ online
  /\ events[c].stage \in {"navigateFetch", "fetch", "unhandled"}
  /\ LET req == events[c].req
         res == Response(req.url, status)
         stores == \/ events[c].stage = "navigateFetch"
                   \/ /\ events[c].stage = "fetch"
                      /\ storesResponse(worker, req, res)
     IN /\ delivered' = [req |-> req, from |-> "network", res |-> res]
        /\ events' = [events EXCEPT
                        ![c] = IF stores
                               THEN [req |-> req, stage |-> "put", res |-> res]
                               ELSE NoEvent]
  /\ UNCHANGED <<worker, swState, cacheNames, cache, deleting, online>>
  /\ UNCHANGED pageVars

\* fetch(req) rejects: the navigate branch's catch answers from the cache,
\* the other branches pass the rejection on
fetchRejects(c) ==
  /\ ~online
  /\ events[c].stage \in {"navigateFetch", "fetch", "unhandled"}
  /\ LET req == events[c].req
         cached == IF events[c].stage = "navigateFetch"
                   THEN navigationFallback(worker, cacheNames, cache)
                   ELSE NoResponse
     IN delivered' = [req |-> req,
                      from |-> IF cached # NoResponse THEN "cache" ELSE "error",
                      res |-> cached]
  /\ events' = [events EXCEPT ![c] = NoEvent]
  /\ UNCHANGED <<worker, swState, cacheNames, cache, deleting, online>>
  /\ UNCHANGED pageVars

\* caches.open(CACHE).then(c => c.put(key, copy)) resolves
putResolves(c) ==
  /\ events[c].stage = "put"
  /\ cacheNames' = cacheNames \cup {CACHE(worker)}
  /\ cache' = [cache EXCEPT ![putKey(worker, events[c].req)] = events[c].res]
  /\ events' = [events EXCEPT ![c] = NoEvent]
  /\ UNCHANGED <<worker, swState, deleting, online, delivered>>
  /\ UNCHANGED pageVars

\* ... or rejects (storage quota): the rejection is not handled and the
\* cache keeps what it had
putRejects_FailsResponse(c) ==
  /\ events[c].stage = "put"
  /\ events' = [events EXCEPT ![c] = NoEvent]
  /\ delivered' = [req |-> events[c].req, from |-> "error", res |-> NoResponse]
  /\ UNCHANGED <<worker, swState, cacheNames, cache, deleting, online>>
  /\ UNCHANGED pageVars

putRejects(c) ==
  /\ events[c].stage = "put"
  /\ events' = [events EXCEPT ![c] = NoEvent]
  /\ UNCHANGED <<worker, swState, cacheNames, cache, deleting, online, delivered>>
  /\ UNCHANGED pageVars

NextSW ==
  \/ \E w \in Workers : \E others \in SUBSET ({CACHE(x) : x \in Workers} \ {CACHE(w)}) :
       register(w, others)
  \/ addAllResolves
  \/ addAllRejects
  \/ skipWaiting
  \/ activate
  \/ \E k \in deleting : deleteResolves(k)
  \/ claim
  \/ reload
  \/ goOffline
  \/ goOnline
  \/ \E c \in Clients : \E req \in Requests(worker) : onFetch(c, req)
  \/ \E c \in Clients : matchResolves(c)
  \/ \E c \in Clients : \E status \in Statuses : fetchResolves(c, status)
  \/ \E c \in Clients : fetchRejects(c)
  \/ \E c \in Clients : putResolves(c)
  \/ \E c \in Clients : putRejects(c)

SpecSW == Init /\ [][NextSW]_vars

\* the worker's life cycle alone: registration, install and activate
NextLifecycle ==
  \/ \E w \in Workers : \E others \in SUBSET ({CACHE(x) : x \in Workers} \ {CACHE(w)}) :
       register(w, others)
  \/ addAllResolves
  \/ addAllRejects
  \/ skipWaiting
  \/ activate
  \/ \E k \in deleting : deleteResolves(k)
  \/ claim
  \/ reload
  \/ goOffline
  \/ goOnline

SpecLifecycle == Init /\ [][NextLifecycle]_vars

\* The origin shared with another worker of the repository. The activate
\* handler of worker x deletes every cache whose name is not its own CACHE,
\* the cache of the worker observed here included; that cache is created
\* again, empty, by the next caches.open(CACHE) of a fetch event. The keys
\* of the two workers are URLs under different scopes, so caches.match finds
\* nothing in the cache of x.
activateOf(x) ==
  /\ swState = "activated"
  /\ x \in Workers \ {worker}
  /\ CACHE(worker) \in cacheNames
  /\ cacheNames' = {CACHE(x)}
  /\ cache' = [k \in AllKeys |-> NoResponse]
  /\ UNCHANGED <<worker, swState, deleting, online, events, delivered>>
  /\ UNCHANGED pageVars

\* one controlled client, on an origin where the other workers come and go
NextOrigin ==
  \/ \E w \in Workers : \E others \in SUBSET ({CACHE(x) : x \in Workers} \ {CACHE(w)}) :
       register(w, others)
  \/ addAllResolves
  \/ addAllRejects
  \/ skipWaiting
  \/ activate
  \/ \E k \in deleting : deleteResolves(k)
  \/ claim
  \/ reload
  \/ goOffline
  \/ goOnline
  \/ \E x \in Workers : activateOf(x)
  \/ \E req \in Requests(worker) \cup ShellRequests(worker) : onFetch(1, req)
  \/ matchResolves(1)
  \/ \E status \in Statuses : fetchResolves(1, status)
  \/ fetchRejects(1)
  \/ putResolves(1)
  \/ putRejects(1)

SpecOrigin == Init /\ [][NextOrigin]_vars

----------------------------------------------------------------------------
(* Vocabulary of the properties *)

CapacityBased == {"capacity", "bennyfilt"}
WithRisk == {"capacity"} \cup Heuristic

\* the predicted life: rulDays in App.jsx, days in the Bennyfilt dashboards
Life(v, o) == IF v = "capacity" THEN o.rulDays ELSE o.days

NonNegative(in) == \A f \in DOMAIN in : in[f] >= 0

\* this step changed the field f of the inputs and nothing else
OnlyChanged(f) ==
  /\ f \in DOMAIN inputs
  /\ inputs' = [inputs EXCEPT ![f] = inputs'[f]]
  /\ variant' = variant

REq(x, y) == ~RLess(x, y) /\ ~RLess(y, x)

----------------------------------------------------------------------------
(* C1: for every non-negative input the lead and arsenic removal fractions *)
(* lie within the variant's [floor, ceiling]: lead [0.55, 0.98] and        *)
(* arsenic [0.50, 0.97] in the configurable capacity variant, lead         *)
(* [0.60, 0.98] and arsenic [0.55, 0.97] in the Bennyfilt and heuristic    *)
(* variants.                                                               *)
C1_RemovalWithinBounds ==
  NonNegative(inputs) =>
    LET pbFloor == IF variant = "capacity" THEN 55 ELSE 60
        asFloor == IF variant = "capacity" THEN 50 ELSE 55
    IN  /\ pbFloor * Scale <= out.pbRemovalPct
        /\ out.pbRemovalPct <= 98 * Scale
        /\ asFloor * Scale <= out.asRemovalPct
        /\ out.asRemovalPct <= 97 * Scale

\* the unclamped lead removal 0.95 - 0.30 - 0.20 - 0.12 = 0.33 is below the
\* floor, and the floor is what predict returned
C1_Witness ==
  /\ variant = "capacity"
  /\ NonNegative(inputs)
  /\ inputs.turbidity >= 500 /\ inputs.ph = 55 /\ inputs.pb + inputs.as >= 120
  /\ out.pbRemovalPct = 55 * Scale
  /\ out.asRemovalPct = 50 * Scale

(* C2: Example 1 - Bennyfilt predict with lead 0.20, arsenic 1.00,         *)
(* turbidity 500, flow 2000 gives turbidity penalty 0.375, lead removal    *)
(* 0.60, arsenic removal 0.55, outlet lead 0.08 and outlet arsenic 0.45.   *)
C2_Example1 ==
  (variant = "bennyfilt"
     /\ inputs = [pb |-> 20, as |-> 100, turbidity |-> 500, flow_L_day |-> 2000])
  => /\ 1000 * turbPenalty(inputs.turbidity, Pct(40)) = 375 * Scale
     /\ out.pbRemovalPct = 60 * Scale
     /\ out.asRemovalPct = 55 * Scale
     /\ 100 * out.pbOut = 8 * ConcDen * Scale
     /\ 100 * out.asOut = 45 * ConcDen * Scale

C2_Witness ==
  /\ variant = "bennyfilt"
  /\ inputs = [pb |-> 20, as |-> 100, turbidity |-> 500, flow_L_day |-> 2000]
  /\ out.days[1] > 0

(* C3 as stated: in the capacity-based model, flow = 0 gives a life of 365 *)
(* days for every value of the other inputs.                               *)
C3_Original_ZeroFlowGivesMaxLife ==
  (variant \in CapacityBased /\ inputs.flow_L_day = 0)
  => Life(variant, out) = RInt(365)

(* C3 amended: with flow = 0 the life is clamp(totalCapacity / 1e-9, 0,    *)
(* 365): 365 days whenever the total capacity is at least 365e-9 mg        *)
(* (always in the Bennyfilt variants, whose media is fixed), and 0 days    *)
(* when the total capacity is 0 (media mass or capacity 0).                *)
C3_ZeroFlowLife ==
  (variant \in CapacityBased /\ inputs.flow_L_day = 0)
  => /\ RLeq(RMul(RInt(365), Epsilon), out.totalCapacity_mg)
          => Life(variant, out) = RInt(365)
     /\ out.totalCapacity_mg = RInt(0) => Life(variant, out) = RInt(0)
     /\ variant = "bennyfilt" => Life(variant, out) = RInt(365)

C3_Witness ==
  /\ variant = "capacity"
  /\ inputs.flow_L_day = 0
  /\ inputs.mediaMass_g = 0
  /\ inputs.pb > 0
  /\ out.rulDays = RInt(0)

(* C4: in the capacity-based variants, with the other inputs fixed and     *)
(* non-negative, the life is non-increasing in daily flow: a step that     *)
(* only raises the flow never raises the predicted days.                   *)
C4_LifeNonIncreasingInFlow ==
  [][ (/\ variant \in CapacityBased
       /\ OnlyChanged("flow_L_day")
       /\ \A f \in DOMAIN inputs \ {"flow_L_day"} : inputs[f] >= 0
       /\ inputs.flow_L_day <= inputs'.flow_L_day)
      => RLeq(Life(variant, out'), Life(variant, out)) ]_vars

\* a flow at which the life is strictly below the 365 days of flow 0
C4_Witness ==
  /\ variant \in CapacityBased
  /\ NonNegative(inputs)
  /\ inputs.flow_L_day = 1000
  /\ inputs.turbidity = 1000
  /\ RLess(RInt(0), Life(variant, out))
  /\ RLess(Life(variant, out), RInt(365))

\* removal fraction of an output record, as a rational
RemovalFraction(pct) == Norm(pct, 100 * Scale)

\* media mass and capacity per mass: inputs of App.jsx, constants elsewhere
MediaOf(v, in) ==
  IF v = "capacity" THEN RMul(RInt(in.mediaMass_g), RInt(in.capacity_mg_g))
  ELSE RMul(RInt(MEDIA_MASS_G), RInt(CAPACITY_MG_G))

\* lead x flow x leadRemoval + arsenic x flow x arsenicRemoval
PlainRemovedPerDay(in, o) ==
  RAdd(RMul(RMul(ConcToRat(in.pb), RInt(in.flow_L_day)), RemovalFraction(o.pbRemovalPct)),
       RMul(RMul(ConcToRat(in.as), RInt(in.flow_L_day)), RemovalFraction(o.asRemovalPct)))

\* the same with each daily inlet mass floored at 0
FlooredRemovedPerDay(in, o) ==
  RAdd(RMul(RMax(RInt(0), RMul(ConcToRat(in.pb), RInt(in.flow_L_day))),
            RemovalFraction(o.pbRemovalPct)),
       RMul(RMax(RInt(0), RMul(ConcToRat(in.as), RInt(in.flow_L_day))),
            RemovalFraction(o.asRemovalPct)))

\* d = clamp(cap / max(1e-9, removed), 0, 365), stated without a division
IsClampedQuotient(d, cap, removed) ==
  LET den == IF RLess(Epsilon, removed) THEN removed ELSE Epsilon
  IN  /\ RLeq(RMul(RInt(365), den), cap) => d = RInt(365)
      /\ RLeq(cap, RInt(0)) => d = RInt(0)
      /\ (RLess(RInt(0), cap) /\ RLess(cap, RMul(RInt(365), den))) => REq(RMul(d, den), cap)

LifeFormula(removed) ==
  LET raw == RMul(MediaOf(variant, inputs), out.foulingFactor)
  IN  /\ out.totalCapacity_mg = (IF RLess(raw, RInt(0)) THEN RInt(0) ELSE raw)
      /\ IsClampedQuotient(Life(variant, out), out.totalCapacity_mg, removed)
      /\ out.totalTreatable_L = RMul(Life(variant, out), RInt(inputs.flow_L_day))

(* C5 as stated: in the capacity-based variants the life equals            *)
(* clamp(totalCapacity / max(1e-9, removedPerDay), 0, 365) with            *)
(* totalCapacity = max(0, mediaMass x capacityPerMass x foulingFactor) and *)
(* removedPerDay = lead x flow x leadRemoval + arsenic x flow x            *)
(* arsenicRemoval, and the total treatable volume equals life x flow.      *)
C5_Original_LifeFormula ==
  variant \in CapacityBased => LifeFormula(PlainRemovedPerDay(inputs, out))

(* C5 amended: as stated, except that in the configurable variant          *)
(* (App.jsx) removedPerDay = max(0, lead x flow) x leadRemoval +           *)
(* max(0, arsenic x flow) x arsenicRemoval (each daily inlet mass is       *)
(* floored at 0; the same value whenever the inputs are non-negative).     *)
C5_LifeFormula ==
  variant \in CapacityBased =>
    LifeFormula(IF variant = "capacity" THEN FlooredRemovedPerDay(inputs, out)
                ELSE PlainRemovedPerDay(inputs, out))

\* a life strictly inside (0, 365), where the quotient itself is returned,
\* after the flow and the media were changed from their defaults
C5_Witness ==
  /\ variant = "capacity"
  /\ inputs.flow_L_day = 1000
  /\ inputs.capacity_mg_g = 3
  /\ inputs.pb = 10
  /\ RLess(RInt(0), out.rulDays)
  /\ RLess(out.rulDays, RInt(365))
  /\ out.totalTreatable_L = RMul(out.rulDays, RInt(1000))

(* C6: with all other inputs fixed, the risk score is non-decreasing in    *)
(* turbidity: a step that only raises the turbidity never lowers the risk. *)
C6_RiskNonDecreasingInTurbidity ==
  [][ (/\ variant \in WithRisk
       /\ OnlyChanged("turbidity")
       /\ inputs.turbidity <= inputs'.turbidity)
      => out.risk <= out'.risk ]_vars

\* the turbidity term is saturated at 0.45 and the total is below the 0.95 cap
C6_Witness ==
  /\ variant \in WithRisk
  /\ inputs.turbidity = 1000
  /\ out.risk >= Pct(10) + Pct(45)
  /\ out.risk < Pct(95)

(* C7: for every input the risk score lies in [0.05, 0.95].                *)
C7_RiskWithinBounds ==
  variant \in WithRisk => (Pct(5) <= out.risk /\ out.risk <= Pct(95))

\* the weighted sum 0.10 + 0.45 + 2.2/12 + 0.15 + 0.15 exceeds 0.95 and the
\* returned risk is the cap
C7_Witness ==
  /\ variant = "capacity"
  /\ inputs.turbidity >= 750
  /\ inputs.pb + inputs.as >= 220
  /\ inputs.ph = 55
  /\ inputs.flow_L_day = 2000
  /\ out.risk = Pct(95)

(* C8: for each contaminant the outlet concentration equals                *)
(* inlet x (1 - removal fraction); hence, for a fixed non-negative inlet,  *)
(* the outlet never decreases when the removal fraction decreases and      *)
(* never increases when it increases.                                      *)
C8_OutletFormula ==
  /\ [](/\ 100 * out.pbOut = inputs.pb * (100 * Scale - out.pbRemovalPct)
        /\ 100 * out.asOut = inputs.as * (100 * Scale - out.asRemovalPct))
  /\ [][ /\ (inputs'.pb = inputs.pb /\ inputs.pb >= 0 /\ variant' = variant)
            => /\ out'.pbRemovalPct <= out.pbRemovalPct => out'.pbOut >= out.pbOut
               /\ out'.pbRemovalPct >= out.pbRemovalPct => out'.pbOut <= out.pbOut
         /\ (inputs'.as = inputs.as /\ inputs.as >= 0 /\ variant' = variant)
            => /\ out'.asRemovalPct <= out.asRemovalPct => out'.asOut >= out.asOut
               /\ out'.asRemovalPct >= out.asRemovalPct => out'.asOut <= out.asOut ]_vars

\* a positive inlet whose removal fraction is partly penalised (neither the
\* base value nor the floor), with the matching positive outlet
C8_Witness ==
  /\ inputs.pb = 10
  /\ inputs.turbidity = 250
  /\ out.pbRemovalPct < 95 * Scale
  /\ out.pbRemovalPct > 60 * Scale
  /\ out.pbOut > 0

(* C9: Example 2 - with turbidity 0, pH 7.5 and lead + arsenic load 0      *)
(* every penalty is 0 and predict returns lead removal exactly 0.95 and    *)
(* arsenic removal exactly 0.90.                                           *)
C9_Example2 ==
  (/\ inputs.turbidity = 0
   /\ inputs.pb + inputs.as = 0
   /\ "ph" \in DOMAIN inputs => inputs.ph = 75)
  => /\ turbPenalty(inputs.turbidity, Pct(30)) = 0
     /\ turbPenalty(inputs.turbidity, Pct(40)) = 0
     /\ phPenalty(75) = 0
     /\ loadPenalty(inputs.pb + inputs.as) = 0
     /\ out.pbRemovalPct = 95 * Scale
     /\ out.asRemovalPct = 90 * Scale

C9_Witness ==
  /\ variant = "heuristic"
  /\ inputs.turbidity = 0
  /\ inputs.pb = 0 /\ inputs.as = 0
  /\ inputs.ph = 75
  /\ out.pbRemovalPct = 95 * Scale

\* 1000 x clamp(30 - 24 x stress, 3, 30), from the inputs in their own units:
\* 24 x stress = (9 x T + 7 x L + 64 x P) / 1000 with T = clamp(turbidity, 0, 1200),
\* L = clamp(100 x load, 0, 1200), P = clamp(10 x |pH - 7.5|, 0, 75)
ClampedLife1000(in) ==
  LET T == Min(1200, Max(0, in.turbidity))
      L == Min(1200, Max(0, in.pb + in.as))
      P == Min(75, Max(0, Abs(in.ph - 75)))
      x == 30000 - (9 * T + 7 * L + 64 * P)
  IN  Min(30000, Max(3000, x))

(* C10: in the heuristic variants the remaining life is                    *)
(* round(clamp(30 - 24 x stress, 3, 30)) with stress = 0.45 x              *)
(* clamp(turbidity/1200,0,1) + 0.35 x clamp(load/12,0,1) + 0.20 x          *)
(* clamp(|pH - 7.5|/7.5,0,1): a whole number of days within [3, 30], an    *)
(* integer nearest to the clamped value (at most 1/2 away from it).        *)
C10_HeuristicLife ==
  variant \in Heuristic =>
    /\ out.rulDays \in 3..30
    /\ 1000 * out.rulDays - 500 <= ClampedLife1000(inputs)
    /\ ClampedLife1000(inputs) <= 1000 * out.rulDays + 500

\* the clamped value is not whole and lies in the upper half of its unit
\* interval, so rounding moved it up
C10_Witness ==
  /\ variant = "heuristic"
  /\ inputs.turbidity = 500
  /\ ClampedLife1000(inputs) % 1000 >= 500
  /\ 1000 * out.rulDays > ClampedLife1000(inputs)
  /\ out.rulDays < 30

----------------------------------------------------------------------------
(* Vocabulary of the recommendation properties *)

\* the kinds of the recommendation list, in list order
Kinds(o) == [i \in 1..Len(o.actions) |-> o.actions[i].kind]

\* the record a rule pushed (the first one, were there several)
RecordOf(o, rule) ==
  o.actions[CHOOSE i \in 1..Len(o.actions) :
              /\ o.actions[i].rule = rule
              /\ \A j \in 1..(i - 1) : o.actions[j].rule # rule]

HasRecord(o, rule) == \E i \in 1..Len(o.actions) : o.actions[i].rule = rule

(* C11: for every input the recommendation list returned by predict has    *)
(* exactly four records, pushed by the turbidity, pH, compliance and risk  *)
(* rules in this order (one record per rule, each of kind ok, warn or      *)
(* bad), and evaluating predict again on the same input returns the same   *)
(* list.                                                                   *)
C11_FourRecordsInOrder ==
  variant \in WithRisk =>
    /\ Len(out.actions) = 4
    /\ [i \in 1..4 |-> out.actions[i].rule] = <<"turbidity", "ph", "compliance", "risk">>
    /\ \A i \in 1..4 : out.actions[i].kind \in {"ok", "warn", "bad"}
    /\ predict(variant, inputs).actions = out.actions

\* a list with mixed kinds, after the inputs were changed from the defaults
C11_Witness ==
  /\ variant = "capacity"
  /\ inputs.turbidity = 299 /\ inputs.ph = 90 /\ inputs.pb = 0 /\ inputs.as = 0
  /\ Kinds(out) = <<"ok", "warn", "ok", "warn">>

(* C12 as stated: the pH record is "warn" exactly when pH is outside       *)
(* [6.5, 8.5] and "ok" when pH is inside, for every pH value.              *)
C12_Original_PhWarnOutsideDrinkingRange ==
  (variant \in WithRisk /\ HasRecord(out, "ph")) =>
    LET outside == inputs.ph < 65 \/ inputs.ph > 85
    IN  /\ RecordOf(out, "ph").kind = "warn" <=> outside
        /\ ~outside => RecordOf(out, "ph").kind = "ok"

(* C12 amended: the pH record is "ok" exactly when pH is inside the        *)
(* dashboard's accepted range, which is [6.5, 8.5] in App.jsx, part_001    *)
(* and part_003 and [6.0, 9.0] in part_004; outside that range it is       *)
(* "warn", except that App.jsx gives "bad" when pH is below 5.0 or above   *)
(* 9.0.                                                                    *)
C12_PhRecord ==
  (variant \in WithRisk /\ HasRecord(out, "ph")) =>
    LET lo == IF variant = "heuristic" THEN 60 ELSE 65
        hi == IF variant = "heuristic" THEN 90 ELSE 85
        inside == lo <= inputs.ph /\ inputs.ph <= hi
        extreme == variant = "capacity" /\ (inputs.ph < 50 \/ inputs.ph > 90)
        kind == RecordOf(out, "ph").kind
    IN  /\ kind = "ok" <=> inside
        /\ kind = "bad" <=> extreme
        /\ kind = "warn" <=> (~inside /\ ~extreme)

\* a pH above 8.5 and not above 9.0: accepted by part_004, flagged elsewhere
C12_Witness ==
  /\ variant = "heuristic"
  /\ inputs.ph = 90
  /\ inputs.turbidity = 300
  /\ RecordOf(out, "ph").kind = "ok"

(* C13 as stated: the turbidity record is "bad" when turbidity >= 900,     *)
(* "warn" when 300 <= turbidity < 900 and "ok" when turbidity < 300, for   *)
(* every turbidity value.                                                  *)
C13_Original_TurbidityCuts ==
  (variant \in WithRisk /\ HasRecord(out, "turbidity")) =>
    RecordOf(out, "turbidity").kind =
      (IF inputs.turbidity >= 900 THEN "bad"
       ELSE IF inputs.turbidity >= 300 THEN "warn" ELSE "ok")

(* C13 amended: as stated in App.jsx, part_001 and part_004; in part_003   *)
(* the cut points are the drinking-water targets: "bad" when turbidity >   *)
(* 10, "warn" when 5 < turbidity <= 10 and "ok" when turbidity <= 5.       *)
C13_TurbidityRecord ==
  (variant \in WithRisk /\ HasRecord(out, "turbidity")) =>
    RecordOf(out, "turbidity").kind =
      (IF variant = "heuristic_part_003"
       THEN IF inputs.turbidity >= 11 THEN "bad"
            ELSE IF inputs.turbidity >= 6 THEN "warn" ELSE "ok"
       ELSE IF inputs.turbidity >= 900 THEN "bad"
            ELSE IF inputs.turbidity >= 300 THEN "warn" ELSE "ok")

\* exactly at the 900 NTU cut point
C13_Witness ==
  /\ variant = "capacity"
  /\ inputs.turbidity = 900
  /\ inputs.ph = 75
  /\ RecordOf(out, "turbidity").kind = "bad"

(* C14: for each contaminant the compliance boolean is true exactly when   *)
(* the predicted outlet concentration is at most 0.01 mg/L, and the        *)
(* compliance record is "bad" exactly when at least one of the two         *)
(* booleans is false, and "ok" otherwise.                                  *)
C14_Compliance ==
  (variant \in WithRisk /\ HasRecord(out, "compliance")) =>
    /\ out.compliance.pbPass <=> (100 * out.pbOut <= ConcDen * Scale)
    /\ out.compliance.asPass <=> (100 * out.asOut <= ConcDen * Scale)
    /\ RecordOf(out, "compliance").kind = "bad"
         <=> (~out.compliance.pbPass \/ ~out.compliance.asPass)
    /\ RecordOf(out, "compliance").kind = "ok"
         <=> (out.compliance.pbPass /\ out.compliance.asPass)

\* lead 0.10 mg/L removed at exactly 0.90: the outlet is exactly the limit
C14_Witness ==
  /\ variant = "capacity"
  /\ inputs.pb = 10 /\ inputs.as = 0 /\ inputs.ph = 75 /\ inputs.turbidity = 98
  /\ 100 * out.pbOut = ConcDen * Scale
  /\ out.compliance.pbPass
  /\ RecordOf(out, "compliance").kind = "ok"

(* C15: the risk record is "bad" when risk >= 0.66, "warn" when            *)
(* 0.33 <= risk < 0.66 and "ok" when risk < 0.33, and for every risk this  *)
(* kind equals the level riskLabel gives the risk pill.                    *)
C15_RiskRecord ==
  (variant \in WithRisk /\ HasRecord(out, "risk")) =>
    /\ RecordOf(out, "risk").kind =
         (IF 100 * out.risk >= 66 * Scale THEN "bad"
          ELSE IF 100 * out.risk >= 33 * Scale THEN "warn" ELSE "ok")
    /\ RecordOf(out, "risk").kind = riskLabel(out.risk)

\* a risk just below the 0.33 cut point
C15_Witness ==
  /\ variant \in WithRisk
  /\ inputs.ph # 80
  /\ 100 * out.risk >= 30 * Scale
  /\ 100 * out.risk < 33 * Scale
  /\ RecordOf(out, "risk").kind = "ok"
  /\ riskLabel(out.risk) = "ok"

(* C16: for every input each intermediate term is within its range before  *)
(* it is combined: the turbidity penalty in [0, 0.30] (App.jsx and the     *)
(* heuristic dashboards) or [0, 0.40] (Bennyfilt), the pH penalty in       *)
(* [0, 0.20], the load penalty in [0, 0.12] and the fouling factor in      *)
(* [0.35, 1.0].                                                            *)
C16_TermsWithinRanges ==
  LET cap == IF variant = "bennyfilt" THEN 40 ELSE 30
      tp == turbPenalty(inputs.turbidity, Pct(cap))
  IN  /\ 0 <= tp /\ 100 * tp <= cap * Scale
      /\ variant # "bennyfilt" =>
           /\ 0 <= phPenalty(inputs.ph) /\ 100 * phPenalty(inputs.ph) <= 20 * Scale
           /\ 0 <= loadPenalty(inputs.pb + inputs.as)
           /\ 100 * loadPenalty(inputs.pb + inputs.as) <= 12 * Scale
      /\ variant \in CapacityBased =>
           /\ out.foulingFactor = foulingFactor(inputs.turbidity)
           /\ RLeq(<<35, 100>>, out.foulingFactor)
           /\ RLeq(out.foulingFactor, RInt(1))

\* every term at the end of its range: the raw values 0.958, 0.6, 0.13 and
\* 0.28 were clamped
C16_Witness ==
  /\ variant = "capacity"
  /\ inputs.turbidity = 1200 /\ inputs.ph = 45 /\ inputs.pb + inputs.as = 130
  /\ turbPenalty(inputs.turbidity, Pct(30)) = Pct(30)
  /\ phPenalty(inputs.ph) = Pct(20)
  /\ loadPenalty(inputs.pb + inputs.as) = Pct(12)
  /\ out.foulingFactor = <<7, 20>>

----------------------------------------------------------------------------
(* Vocabulary of the trend properties *)

\* t = min(a, b), stated without computing the minimum
IsMinOf(t, a, b) == (t = a \/ t = b) /\ RLeq(t, a) /\ RLeq(t, b)

(* C17: the trend of the capacity-based variants is a sequence of exactly  *)
(* 14 points whose day indices are 1, 2, ..., 14 in order, and the treated *)
(* volume of the point of day i is min(totalTreatableVolume, i x           *)
(* dailyFlow), with the volume and the flow of the current prediction.     *)
C17_TrendPoints ==
  variant \in CapacityBased =>
    LET shown == trend
    IN  /\ DOMAIN shown = 1..14
        /\ \A i \in 1..14 :
             /\ shown[i].day = i
             /\ IsMinOf(shown[i].treated, out.totalTreatable_L, RInt(i * inputs.flow_L_day))

\* a life between 1 and 14 days: the first point is below the total
\* treatable volume, the last one is capped by it
C17_Witness ==
  /\ variant = "capacity"
  /\ inputs.flow_L_day = 1000
  /\ inputs.capacity_mg_g = 3
  /\ trend[1].treated = RInt(1000)
  /\ RLess(trend[1].treated, out.totalTreatable_L)
  /\ RLess(out.totalTreatable_L, RInt(14 * 1000))
  /\ trend[14].treated = out.totalTreatable_L

(* C18: in the capacity-based variants the remaining percentage of the     *)
(* day-i point is 100 x (1 - i/14) for every i in 1..14, whatever the      *)
(* life, the flow and the treatable volume: within [0, 100], strictly      *)
(* decreasing in i and 0 at day 14.                                        *)
C18_RemainingLinearDecay ==
  variant \in CapacityBased =>
    LET shown == trend
    IN  /\ \A i \in 1..14 :
             /\ shown[i].remaining = Norm(100 * (14 - i), 14)
             /\ RLeq(RInt(0), shown[i].remaining)
             /\ RLeq(shown[i].remaining, RInt(100))
        /\ \A i \in 1..13 : RLess(shown[i + 1].remaining, shown[i].remaining)
        /\ shown[14].remaining = RInt(0)

\* a predicted life of 0 days (no media): half of the window still shows 50%
C18_Witness ==
  /\ variant = "capacity"
  /\ inputs.mediaMass_g = 0
  /\ out.rulDays = RInt(0)
  /\ trend[7].remaining = RInt(50)
  /\ trend[14].remaining = RInt(0)

----------------------------------------------------------------------------
(* C19 *)

\* a navigation was answered without the network's response
NavigationWithoutNetwork ==
  delivered.req.mode = "navigate" /\ delivered.from # "network"

\* C19 as stated: every navigation request made while the network is
\* unavailable is answered with a cached response, not a network error
C19_Original_OfflineNavigationCached ==
  NavigationWithoutNetwork => delivered.from = "cache"

\* C19: every navigation request made while the network is unavailable and
\* handled by the worker (docs/sw.js leaves requests other than GET to the
\* browser) is answered with a response taken from the cache, one stored
\* for a page of the application, whatever fetch events came before
C19_OfflineNavigationCached ==
  (NavigationWithoutNetwork /\ ~(worker = "docs" /\ delivered.req.method # "GET"))
    => /\ delivered.from = "cache"
       /\ delivered.res.url \in NavigationUrls(worker)
       /\ delivered.res.status \in Statuses

\* an offline navigation answered from the cache after an earlier
\* navigation to another page had replaced the precached entry
C19_Witness ==
  /\ NavigationWithoutNetwork
  /\ delivered.req.method = "GET"
  /\ delivered.from = "cache"
  /\ delivered.res = Response(root(worker) \o "report.html", 404)
  /\ ~online

----------------------------------------------------------------------------
(* C20 *)

\* the texts that write a number, with the number they write
Numerals ==
  {[text |-> <<"0", ".", "3">>, number |-> <<3, 10>>],
   [text |-> <<"-", "0", ".", "1">>, number |-> <<-1, 10>>],
   [text |-> <<"7", ".", "5">>, number |-> <<15, 2>>],
   [text |-> <<"1", "2">>, number |-> <<12, 1>>],
   [text |-> <<"4", ".", "5">>, number |-> <<9, 2>>],
   [text |-> <<"3", "0", "0">>, number |-> <<300, 1>>],
   [text |-> <<"1", "6", "0", "0">>, number |-> <<1600, 1>>],
   [text |-> <<"-", "5">>, number |-> <<-5, 1>>]}

IsNumeral(text) == \E n \in Numerals : n.text = text

\* the number a numeral writes, in the units of the field
NumberTyped(field, text) ==
  InUnits(field, (CHOOSE n \in Numerals : n.text = text).number)

\* C20 as stated: the value given to predict is the number typed when it is
\* a number within the range the field declares, and 0 for every other entry
C20_Original_OutOfRangeOrNonNumericIsZero ==
  entry # NoEntry =>
    LET typed == NumberTyped(entry.field, entry.text)
    IN inputs[entry.field] =
         IF IsNumeral(entry.text) /\ InRange(variant, entry.field, typed)
         THEN typed ELSE 0

\* C20: the value given to predict is the number typed, inside the declared
\* range or not, when the entry is a number, and 0 when the entry is empty
\* or not a number; the prediction shown is the one of these inputs
C20_NonNumericIsZero ==
  entry # NoEntry =>
    /\ inputs[entry.field] =
         IF IsNumeral(entry.text) THEN NumberTyped(entry.field, entry.text) ELSE 0
    /\ out = predict(variant, inputs)

\* "1e" typed in the turbidity field gave 0, while the pH typed earlier,
\* 12, above the declared maximum of 9, is still the pH given to predict
C20_Witness ==
  /\ variant = "capacity"
  /\ entry = [field |-> "turbidity", text |-> <<"1", "e">>]
  /\ inputs.turbidity = 0
  /\ inputs.ph = 120

----------------------------------------------------------------------------
(* C21 *)

\* C21: in the static dashboard a failed local-storage write is swallowed:
\* no exception leaves update(), the prediction, the trend and the report of
\* the export button are those of the current inputs, and when the write
\* fails during init() the registration of the service worker is still
\* reached
C21_WriteFailureSwallowed ==
  lastWrite = "failed" =>
    /\ ~thrown
    /\ out = predict(variant, inputs)
    /\ trendArgs = trendArgsOf(variant, inputs, out)
    /\ payload = exportPayload(inputs, out)
    /\ (listening /\ entry = NoEntry) => registerRequested

----------------------------------------------------------------------------
(* C22 *)

\* a step that is a page load: init() ran
IsPageLoad == listening' /\ entry' = NoEntry /\ lastWrite' # "none"

\* C22 as stated: after any sequence of input events the item stored under
\* "bennyfilt_inputs" is the four inputs of the latest update
C22_Original_StoredIsLatest ==
  listening => storage = stringify(inputs)

\* C22: the item stored under "bennyfilt_inputs" is the four inputs of the
\* latest update whose write succeeded; a page load sets the four fields to
\* exactly the stored values (a stored 0 stays 0), and when the last write
\* had succeeded the inputs and the prediction after the load are those
\* shown before it
C22_SaveRestoreRoundTrip ==
  /\ [](lastWrite = "stored" => storage = stringify(inputs) /\ restored(storage) = inputs)
  /\ [][IsPageLoad =>
          /\ storage # NoStorage => stringify(inputs') = storage
          /\ lastWrite = "stored" => inputs' = inputs /\ out' = out]_vars

\* after a page load, a lead concentration of 0 that had been stored is the
\* one in the field, not the fallback 0.2
C22_Witness ==
  /\ listening
  /\ entry = NoEntry
  /\ lastWrite = "stored"
  /\ inputs.pb = 0
  /\ inputs.flow_L_day = 0
  /\ storage.pb = <<"0">>

----------------------------------------------------------------------------
(* C23 *)

\* C23: after any sequence of input changes the prediction shown, the
\* arguments the trend was computed from and the report the export button
\* saves are those of the current inputs: the report echoes the current
\* inputs and its outputs are predict of exactly those inputs
C23_NoStaleDerivedState ==
  LET fresh == predict(variant, inputs)
  IN /\ out = fresh
     /\ trendArgs = trendArgsOf(variant, inputs, fresh)
     /\ payload.inputs = inputs
     /\ payload.outputs = fresh

\* the configurable dashboard after the turbidity and the flow were both
\* changed from their defaults
C23_Witness ==
  /\ variant = "capacity"
  /\ inputs.turbidity = 0
  /\ inputs.flow_L_day = 1000
  /\ inputs.pb = 20
  /\ payload.inputs = inputs
  /\ payload.outputs.rulDays = out.rulDays

----------------------------------------------------------------------------
(* C24 *)

\* every asset of CORE is in the worker's cache, stored with status 200
CoreStored(entries) ==
  /\ CACHE(worker) \in cacheNames
  /\ \A k \in CORE(worker) : entries[k] = Response(k, 200)

\* C24: the install event completes (skipWaiting has been called and the
\* promise given to waitUntil is fulfilled) only after every asset of CORE
\* has been stored; an install leaves its first stage either with all of
\* CORE stored, or failed with the cache as it was, and then skipWaiting is
\* not called; without network the install cannot succeed
C24_InstallAfterCoreStored ==
  /\ [](swState \in {"precached", "installed", "activating"} => CoreStored(cache))
  /\ [][/\ (swState' = "installed" /\ swState # "installed") => swState = "precached"
        /\ (swState = "installing" /\ swState' # "installing") =>
             \/ swState' = "precached" /\ online /\ CoreStored(cache')
             \/ swState' = "redundant" /\ cache' = cache
        /\ (swState = "redundant" /\ swState' # "redundant") => swState' = "unregistered"
       ]_vars

\* the static site's worker installed, all of CORE stored, and the network
\* lost since
C24_Witness ==
  /\ worker = "docs"
  /\ swState = "installed"
  /\ CoreStored(cache)
  /\ ~online

----------------------------------------------------------------------------
(* C25 *)

\* C25: when activation completes, no cache of the origin with a name other
\* than the worker's CACHE is left, the worker's own cache exists with the
\* entries install stored, and clients.claim() is called only after every
\* deletion has finished; install's entries are not touched while the worker
\* waits and activates
C25_ActivateDeletesOtherCaches ==
  /\ [](swState = "activated" => cacheNames = {CACHE(worker)} /\ CoreStored(cache))
  /\ [][/\ (swState' = "activated" /\ swState # "activated") =>
             swState = "activating" /\ deleting = {} /\ cacheNames' = cacheNames
        /\ swState \in {"installed", "activating"} =>
             cache' = cache /\ CACHE(worker) \in cacheNames'
       ]_vars

\* the static site's worker activated: its cache is the only one left and
\* holds all of CORE
C25_Witness ==
  /\ worker = "docs"
  /\ swState = "activated"
  /\ cacheNames = {CACHE("docs")}
  /\ CoreStored(cache)

----------------------------------------------------------------------------
(* C26 *)

\* the keys of the requests that are not navigations
AssetKeys == UNION {AssetUrls(w) : w \in Workers}

\* C26: a request that is not a navigation is answered cache-first. A request
\* found in the cache is answered with the cached response, without a network
\* fetch and without a cache write; a request not found goes to the network,
\* whose response is returned, and that response is written to the cache only
\* if the method is GET and the status 200, so that the cache never holds
\* anything else for such a request
C26_CacheFirst ==
  /\ [](/\ \A k \in AssetKeys : cache[k] \in {NoResponse, Response(k, 200)}
        /\ \A c \in Clients :
             (events[c].stage = "put" /\ events[c].req.mode # "navigate") =>
               /\ events[c].req.method = "GET"
               /\ events[c].res = Response(events[c].req.url, 200))
  /\ [][\A c \in Clients :
          LET e == events[c]
              after == events'[c]
              cached == matchRequest(worker, cacheNames, cache, e.req)
          IN (e.req.mode # "navigate" /\ after # e) =>
               /\ e.stage = "match" =>
                    IF cached # NoResponse
                    THEN /\ after = NoEvent
                         /\ delivered' = [req |-> e.req, from |-> "cache", res |-> cached]
                         /\ cache' = cache
                    ELSE after.stage = "fetch" /\ after.req = e.req
               /\ after.stage = "fetch" => e.stage = "match" /\ cached = NoResponse
               /\ (e.stage \in {"fetch", "unhandled"} /\ online) =>
                    /\ delivered'.from = "network"
                    /\ delivered'.req = e.req
                    /\ delivered'.res.url = e.req.url
                    /\ after.stage = "put" =>
                         /\ e.req.method = "GET"
                         /\ delivered'.res.status = 200
                         /\ after.res = delivered'.res
                    /\ cache' = cache
       ]_vars

\* the bundle answered from the cache while offline: an earlier request had
\* missed, fetched it with status 200 and stored it
C26_Witness ==
  /\ delivered.req.mode = "no-cors"
  /\ delivered.req.method = "GET"
  /\ delivered.from = "cache"
  /\ delivered.res = Response(delivered.req.url, 200)
  /\ ~online

----------------------------------------------------------------------------
(* C27 *)

\* C27: a navigation is network-first with a two-step cache fallback: when
\* the network fetch fails the response is the cached entry for "./" if
\* there is one and otherwise the cached entry for "./index.html", and the
\* failed fetch leaves the cache unchanged
C27_NavigationFallbackTwoSteps ==
  [][\A c \in Clients :
       (events[c].stage = "navigateFetch" /\ events'[c] # events[c] /\ ~online) =>
         LET shell == match(worker, cacheNames, cache, root(worker))
             index == match(worker, cacheNames, cache, root(worker) \o "index.html")
         IN /\ delivered'.req = events[c].req
            /\ delivered'.res = IF shell # NoResponse THEN shell ELSE index
            /\ cache' = cache
    ]_vars

----------------------------------------------------------------------------
(* C28 *)

\* C28: once install has stored CORE, the entry under "./" (the one offline
\* navigations are answered with) has status 200 after any sequence of fetch
\* events: no navigation made online replaces it with a response of another
\* status
C28_ShellEntryHasStatus200 ==
  swState \in {"precached", "installed", "activating", "activated"} =>
    match(worker, cacheNames, cache, root(worker)).status = 200

----------------------------------------------------------------------------
(* C29 *)

\* C29: the response of a fetch event does not depend on the cache write the
\* event starts. Whatever the other clients are doing, the page receives the
\* network's response in the step that starts the write, before anything is
\* written; the write, whether it resolves or rejects, leaves what was
\* delivered alone, and when it resolves it replaces the one entry of its
\* key by the response this event fetched, so that concurrent fetches of an
\* uncached URL leave a single entry holding a fetched status-200 response
C29_ResponseIndependentOfWrite ==
  /\ [](\A k \in AssetKeys : cache[k] \in {NoResponse, Response(k, 200)})
  /\ [][\A c \in Clients :
          LET e == events[c]
              after == events'[c]
          IN /\ (e.stage \in {"fetch", "navigateFetch"} /\ after # e /\ online) =>
                  /\ delivered'.req = e.req
                  /\ delivered'.from = "network"
                  /\ delivered'.res \in {Response(e.req.url, s) : s \in Statuses}
                  /\ after.stage = "put" => after.res = delivered'.res
                  /\ cache' = cache
             /\ (e.stage = "put" /\ after # e) =>
                  /\ after = NoEvent
                  /\ delivered' = delivered
                  /\ \/ cache' = cache
                     \/ cache' = [cache EXCEPT ![putKey(worker, e.req)] = e.res]
       ]_vars

\* two clients fetched the same uncached bundle; both writes are pending
\* and the page already has the response of the network
C29_Witness ==
  /\ events[1].stage = "put"
  /\ events[2].stage = "put"
  /\ events[1].req = events[2].req
  /\ events[1].req.mode = "no-cors"
  /\ cache[events[1].req.url] = NoResponse
  /\ delivered = [req |-> events[1].req, from |-> "network", res |-> events[1].res]

----------------------------------------------------------------------------
(* C30 *)

\* C30: in every variant and for every input the predicted lead removal is
\* exactly 5 percentage points above the predicted arsenic removal: the raw
\* values differ by 0.05, so do the two floors, which are reached at the
\* same total penalty, and no penalty is negative, so neither ceiling is
\* reached
C30_LeadFivePointsAboveArsenic ==
  out.pbRemovalPct - out.asRemovalPct = 5 * Scale

\* the configurable dashboard under a heavy penalty: arsenic removal on its
\* floor of 50% and lead removal on its floor, 5 points above
C30_Witness ==
  /\ variant = "capacity"
  /\ out.asRemovalPct = 50 * Scale
  /\ out.pbRemovalPct - out.asRemovalPct = 5 * Scale
  /\ inputs.turbidity > 50

====
